---- MODULE Spec2Model ----
(***************************************************************************)
(* wallet-exporter: the scrape orchestration engine of                     *)
(* internal/exporter/exporter.go.  One scheduler (Start) runs scrape       *)
(* cycles; a cycle fans out three semaphore-bounded pools                  *)
(* (fetchProviderWallets, fetchCustomWallets, pingProviders), swaps the    *)
(* cached wallet list under walletsMux and republishes the metric          *)
(* registry; HTTP handlers (/status, /metrics) read concurrently.          *)
(***************************************************************************)
EXTENDS Naturals, Integers, Sequences, FiniteSets, TLC

\* ---------------------------------------------------------------- bounds
\* Largest provider count the registry reports in a cycle.
MaxProviders == 2
\* Largest number of configured custom wallets.
MaxCustom == 1
\* Largest configured MaxConcurrentRequests explored.
MaxN == 2
\* Number of scrape cycles Start may begin before the model stops ticking.
MaxCycles == 2
\* Largest provider count the registry reports in the runs that span several
\* cycles with HTTP readers.
StoreProviders == 1
\* Largest provider count the registry reports in the runs where every lookup
\* of every unit may fail on its own.
FieldProviders == 1
\* Largest provider count the registry reports in the runs that compare the
\* publications of two consecutive cycles.
PublishProviders == 2
\* Largest provider count the registry reports in the runs that vary the
\* configured kinds, the approved set and the active flags.
KindProviders == 2
\* Largest provider count the registry reports in the runs where a probe may
\* have every outcome.
ProbeProviders == 2
\* Number of scrape cycles in the runs that follow the ticker.
TickCycles == 3
\* Custom-wallet configuration: entries in CUSTOM_WALLETS, tokens of an
\* enumerated entry, and CUSTOM_WALLET_<i> keys read (the code reads 1000).
MaxEntries == 2
MaxEntryLen == 2
NumberedKeys == 1

\* ------------------------------------------------------------- variables
VARIABLES
    env,          \* what the environment does in this run (see Scenarios); never changes
    cfg,          \* config.Config: [N |-> MaxConcurrentRequests, custom |-> len(CustomWallets),
                  \*   tags |-> the type parts of the CustomWallets entries]
    sched,        \* position of Start: "start", "initial_scrape", "select", "scraping", "stopped"
    tickerOn,     \* the time.Ticker of Start exists and is running
    tickPending,  \* ticker.C (capacity 1) holds a tick
    cancelled,    \* ctx.Done() is closed
    cycle,        \* number of scrape calls begun so far (the cycle's generation)
    inProgress,   \* number of scrape calls begun and not yet returned
    spc,          \* position of the running scrape call
    allWallets,   \* scrape's local allWallets
    pingStarted,  \* scrape spawned the ping goroutine in this cycle (wg.Add(1))
    pingJoined,   \* the ping goroutine has returned (wg.Done())
    pingResults,  \* scrape's local pingResults (a set of [ProviderID, Success, Duration]); nil = {}
    ppc,          \* per pool: position of the pool call
    unit,         \* per pool, per unit: "none", "waiting", "running", "done"
    sem,          \* per pool: number of slots taken in the semaphore channel
    walletChan,   \* per pool: buffered result channel
    errorChan,    \* per pool: buffered error channel
    chanCap,      \* per pool: capacity the two channels were made with
    closed,       \* per pool: the closer goroutine has closed both channels
    result,       \* per pool: the pool call's local wallets slice
    errs,         \* per pool: errors drained from errorChan by this pool call
    pingMap,      \* pingProviders' local results map
    approvedMap,  \* fetchProviderWallets' local approvedMap (the set of approved IDs)
    wallets,      \* e.wallets: [gen |-> cycle that built the slice, recs |-> its elements
                  \*   when stored, arr |-> its backing array]
    lastScrape,   \* e.lastScrape (the cycle whose deferred function wrote it; 0 = zero time)
    writer,       \* walletsMux is write-locked
    readers,      \* number of read locks held on walletsMux
    series,       \* the label-keyed series exposed by the registry's wallet and ping families
    fillIdx,      \* updateMetrics: index of the next wallet to publish
    scrapeErrors, \* the scrapeErrors counter
    assembled,    \* history: per cycle, the list and ping results it assembled
    remote,       \* history: per cycle, what the remote source answered
    published,    \* history: per cycle, the series exposed when updateMetrics returned
    lateCalls,    \* history: remote calls pool units issued after ctx was cancelled
    boot,         \* main: the process environment and what config.Load made of it
    ticks,        \* history: number of ticks the runtime delivered into ticker.C
    backing,      \* the heap: contents of the backing array of each wallet slice
    rpc,          \* /status handler position
    seenWallets,  \* /status handler local: result of GetWallets
    seenLast      \* /status handler local: result of GetLastScrape

vars == << env, cfg, sched, tickerOn, tickPending, cancelled, cycle, inProgress, spc,
           allWallets, pingStarted, pingJoined, pingResults, ppc, unit, sem,
           walletChan, errorChan, chanCap, closed, result, errs, pingMap,
           approvedMap, wallets, lastScrape, writer, readers, series, fillIdx,
           scrapeErrors, assembled, remote, published, lateCalls,
           boot, ticks, backing,
           rpc, seenWallets, seenLast >>

schedVars  == << sched, tickerOn, tickPending, cancelled >>
frameVars  == << cycle, inProgress, spc, allWallets, pingStarted, pingJoined, pingResults >>
pubVars    == << series, fillIdx, scrapeErrors, assembled >>
histVars   == << remote, published, lateCalls >>
procVars   == << boot, ticks, backing >>
poolVars   == << ppc, unit, sem, walletChan, errorChan, chanCap, closed, result, errs, pingMap,
                 approvedMap >>
storeVars  == << wallets, lastScrape, writer, readers >>
readerVars == << rpc, seenWallets, seenLast >>

\* ------------------------------------------------------------ data model
Pools == {"prov", "cust", "ping"}
\* The two enrichment pools collect through channels; the probe pool through a map.
ChanPools == {"prov", "cust"}

MaxUnits == IF MaxProviders > MaxCustom THEN MaxProviders ELSE MaxCustom
UnitIds == 1..MaxUnits

\* The third part of the configured custom-wallet entries ("address:name:type",
\* trimmed), by position in the list; "" is an entry without one.
CustomTypes == << "client", "operator", "other" >>

\* parseWalletEntry: the Type of an entry is "other" unless a non-empty third
\* part is given, which is taken as it is.
EntryType(tag) == IF tag = "" THEN "other" ELSE tag

\* cw.Type of the j-th configured wallet.
CustomType(j) == EntryType(cfg.tags[((j - 1) % Len(cfg.tags)) + 1])

\* The remote source.  The address of provider id is << "sp", id >>, that of
\* the j-th configured wallet << "cw", j >>; the chain holds a native and a
\* token balance for every address and the Payments contract answers
\* getAccountInfoIfSettled with one of two accounts ("inverted" reports more
\* available funds than current funds).  Provider 1 is the approved one where
\* the approved set is not varied.
FilOf(addr) == 10 + addr[2]
UsdfcOf(addr) == 20 + addr[2]
PayAnswers ==
    [normal   |-> [CurrentFunds |-> 5, AvailableFunds |-> 3, FundedUntilEpoch |-> 9],
     inverted |-> [CurrentFunds |-> 3, AvailableFunds |-> 5, FundedUntilEpoch |-> 9]]
ApprovedIDs == {1}

\* What the lookups of one unit answer: reg (GetProvider), fil (BalanceAt),
\* usdfc (BalanceOf) succeed or fail; pay (GetAccountInfoIfSettled) fails or
\* names the account answered; active is info.IsActive of the registry entry
\* (kept TRUE where no registry entry is read).  A lookup after a failed
\* foundational one is never made, so the failing answers are kept in one
\* canonical form.
AllOk == [reg |-> TRUE, fil |-> TRUE, usdfc |-> TRUE, pay |-> "normal", active |-> TRUE]
RegFail == [reg |-> FALSE, fil |-> TRUE, usdfc |-> TRUE, pay |-> "normal", active |-> TRUE]
FilFail == [reg |-> TRUE, fil |-> FALSE, usdfc |-> TRUE, pay |-> "normal", active |-> TRUE]
NoAnswer == [reg |-> FALSE, fil |-> FALSE, usdfc |-> FALSE, pay |-> "unasked", active |-> TRUE]
FieldLookups ==
    {RegFail, FilFail} \cup
    [reg : {TRUE}, fil : {TRUE}, usdfc : BOOLEAN, pay : {"err", "normal", "inverted"},
     active : {TRUE}]

\* The foundational lookups of a unit: base info and native balance for a
\* provider, native balance for a custom wallet.
FoundationalRegOnly(p, o) == IF p = "prov" THEN o.reg ELSE TRUE
Foundational(p, o) == IF p = "prov" THEN o.reg /\ o.fil ELSE o.fil

\* fetchPaymentsInfo: a failed contract call yields the zero account (and a nil
\* error); otherwise locked = currentFunds - availableFunds, floored at zero.
ZeroPayments == [Funds |-> 0, Available |-> 0, Locked |-> 0, FundedUntilEpoch |-> 0]
LockedUnclamped(x) == x
LockedClamped(x) == IF x < 0 THEN 0 ELSE x
fetchPaymentsInfo(pay) ==
    IF pay = "err"
    THEN ZeroPayments
    ELSE LET r == PayAnswers[pay]
         IN [Funds |-> r.CurrentFunds,
             Available |-> r.AvailableFunds,
             Locked |-> LockedClamped(r.CurrentFunds - r.AvailableFunds),
             FundedUntilEpoch |-> r.FundedUntilEpoch]

\* The token balance kept in a record: the fetched one, or zero when BalanceOf
\* failed.
UsdfcKeepStale(addr, ok) == UsdfcOf(addr)
UsdfcBalance(addr, ok) == IF ok THEN UsdfcOf(addr) ELSE 0

\* The WalletInfo built from an address and the answers o in cycle gen.
WalletInfo(addr, type, id, active, approved, o, gen) ==
    LET pi == fetchPaymentsInfo(o.pay)
    IN [Address |-> addr, Type |-> type, ProviderID |-> id,
        IsActive |-> active, IsApproved |-> approved,
        FILBalance |-> FilOf(addr),
        USDFCBalance |-> UsdfcBalance(addr, o.usdfc),
        PaymentsFunds |-> pi.Funds,
        PaymentsAvailable |-> pi.Available,
        PaymentsLocked |-> pi.Locked,
        PaymentsFundedUntil |-> pi.FundedUntilEpoch,
        gen |-> gen]

\* The record fetchProviderWallet builds for provider id in cycle gen.
ProviderRecord(id, gen, o, isApproved) ==
    WalletInfo(<< "sp", id >>, "provider", id, o.active, isApproved, o, gen)

\* The record fetchCustomWallet builds for the j-th configured wallet in cycle gen.
CustomRecord(j, gen, o) ==
    WalletInfo(<< "cw", j >>, CustomType(j), 0, FALSE, FALSE, o, gen)

\* A value of time.Time torn by an unsynchronised concurrent write.
Torn == 0 - 1

\* The /status handler's locals before GetWallets has returned.
NoWallets == [gen |-> 0 - 1, recs |-> << >>, arr |-> 0]

\* History entry of a cycle that has not assembled its list yet.
NotAssembled == [done |-> FALSE, recs |-> << >>, pings |-> {}]

\* History entry of a cycle before any remote answer: count is the answer of
\* GetProviderCount (st: "none", "fail" or "ok" with the number n), approved
\* that of GetApprovedProviders ("none", "fail", "ok") with the IDs it returned,
\* answers the lookups of each enrichment unit, calls the number of times the
\* enricher was run for it, probes the outcome of the probe of each provider
\* ID, errs0 the scrapeErrors counter when the cycle began.
NotAsked ==
    [count |-> [st |-> "none", n |-> 0], approved |-> "none", approvedIDs |-> {},
     answers |-> [p \in ChanPools |-> [u \in UnitIds |-> NoAnswer]],
     calls |-> [p \in ChanPools |-> [u \in UnitIds |-> 0]],
     probes |-> [id \in UnitIds |-> "unasked"],
     errs0 |-> 0]

\* History entry of a cycle whose updateMetrics has not returned.
NotPublished == [done |-> FALSE, series |-> {}]

EmptyPoolFn(v) == [p \in Pools |-> v]

\* The environments explored.  A run is either one cycle over pools of every
\* size with remote calls that may fail and probes of every outcome ("pools",
\* and "drain", the same with a healthy approved-set lookup and reachable
\* endpoints), or several cycles over a small registry with healthy remote
\* calls and /status requests arriving at any time ("store"), or several
\* cycles with healthy remote calls and the interrupt signal arriving at any
\* time ("stop").
\*   counts: the provider counts GetProviderCount may report in a cycle
\*   faults: GetProviderCount and the lookups of an entity may fail
\*   approvedFaults: GetApprovedProviders may fail
\*   pings:  the outcomes a probe may have (see ProbeOutcomes)
\*   lookups: the answers the lookups of an enrichment unit may get
\*   faulty: the number of leading cycles in which remote calls may fail
\*   cycles: scrape cycles begun before the ticker goes quiet
\*   http:   /status requests arrive
\*   cancel: the interrupt signal may arrive
\*   ns, customs: the configured MaxConcurrentRequests and custom-wallet counts
\*   tags:   the type parts the custom-wallet entries may be configured with
\*   approvedSets: the ID sets GetApprovedProviders may return
\* The several-cycle runs are configured with one custom wallet.
\* Further environments: "fields", one cycle over a small registry where every
\* lookup of every unit may fail on its own; "cycles", several cycles with one
\* failure of each kind; "publish", two consecutive cycles over registries of
\* changing size, the first with failures; "stop", several cycles with the interrupt signal arriving at any time.
\* What can happen to the probe of one provider: GetProviderWithProduct fails
\* ("lookup_err"), the product is not active ("inactive"), its capabilities
\* hold no serviceURL ("no_url"), or the URL is found and the GET fails
\* ("http_err"), runs into the client's timeout ("timeout"), answers with a
\* status other than 200 ("non200") or answers 200 ("up").
ProbeOutcomes == {"lookup_err", "inactive", "no_url", "http_err", "timeout", "non200", "up"}

\* The client's Timeout and the time.Since(start) measured for an outcome, in
\* milliseconds.
ProbeTimeoutMs == 5000
LatencyMs(o) ==
    IF o = "timeout" THEN ProbeTimeoutMs
    ELSE IF o = "http_err" THEN 1 ELSE IF o = "non200" THEN 2 ELSE 3

\* pingProvider's second result: a PingResult is returned once a serviceURL
\* was found, whatever the GET does.
DiscoveredOnlyIfReachable(o) == o \in {"non200", "up"}
Discovered(o) == o \notin {"lookup_err", "inactive", "no_url"}

\* PingResult.Success: the GET returned without error and with status 200.
ProbeSuccessIfAnswered(o) == o \in {"non200", "up"}
ProbeSuccess(o) == o = "up"

\* pingProvider for provider id with outcome o.
pingProvider(id, o) ==
    [ok |-> Discovered(o),
     res |-> [ProviderID |-> id, Success |-> ProbeSuccess(o), Duration |-> LatencyMs(o)]]

PingOutcomes == {"lookup_err", "up", "non200"}
UsdfcFail == [reg |-> TRUE, fil |-> TRUE, usdfc |-> FALSE, pay |-> "normal", active |-> TRUE]
PoolsScenario ==
    [name |-> "pools", faulty |-> 1, counts |-> 0..MaxProviders, faults |-> TRUE,
     approvedFaults |-> TRUE, lookups |-> {AllOk, FilFail},
     pings |-> PingOutcomes, cycles |-> 1, http |-> FALSE, cancel |-> FALSE,
     ns |-> 1..MaxN, customs |-> 0..MaxCustom,
     tags |-> {CustomTypes}, approvedSets |-> {ApprovedIDs}]
DrainScenario ==
    [name |-> "drain", faulty |-> 1, counts |-> 0..MaxProviders, faults |-> TRUE,
     approvedFaults |-> FALSE, lookups |-> {AllOk, FilFail},
     pings |-> {"up"}, cycles |-> 1, http |-> FALSE, cancel |-> FALSE,
     ns |-> 1..MaxN, customs |-> 0..MaxCustom,
     tags |-> {CustomTypes}, approvedSets |-> {ApprovedIDs}]
StoreScenario ==
    [name |-> "store", faulty |-> MaxCycles, counts |-> 0..StoreProviders, faults |-> FALSE,
     approvedFaults |-> FALSE, lookups |-> {AllOk},
     pings |-> {"up"}, cycles |-> MaxCycles, http |-> TRUE, cancel |-> FALSE,
     ns |-> {MaxN}, customs |-> {1},
     tags |-> {CustomTypes}, approvedSets |-> {ApprovedIDs}]
FieldsScenario ==
    [name |-> "fields", faulty |-> 1, counts |-> 0..FieldProviders, faults |-> TRUE,
     approvedFaults |-> TRUE, lookups |-> FieldLookups,
     pings |-> {"up"}, cycles |-> 1, http |-> FALSE, cancel |-> FALSE,
     ns |-> {1}, customs |-> {1},
     tags |-> {CustomTypes}, approvedSets |-> {ApprovedIDs}]
CyclesScenario ==
    [name |-> "cycles", faulty |-> 1, counts |-> 0..FieldProviders, faults |-> TRUE,
     approvedFaults |-> TRUE, lookups |-> {AllOk, FilFail, UsdfcFail},
     pings |-> {"up", "non200"}, cycles |-> 2, http |-> FALSE, cancel |-> FALSE,
     ns |-> {1}, customs |-> {1},
     tags |-> {CustomTypes}, approvedSets |-> {ApprovedIDs}]
PublishScenario ==
    [name |-> "publish", faulty |-> 1, counts |-> 0..PublishProviders, faults |-> FALSE,
     approvedFaults |-> TRUE, lookups |-> {AllOk, FilFail},
     pings |-> {"up"}, cycles |-> 2, http |-> FALSE, cancel |-> FALSE,
     ns |-> {1}, customs |-> {1},
     tags |-> {CustomTypes}, approvedSets |-> {ApprovedIDs}]
StopScenario ==
    [name |-> "stop", faulty |-> MaxCycles, counts |-> 0..StoreProviders, faults |-> FALSE,
     approvedFaults |-> FALSE, lookups |-> {AllOk},
     pings |-> {"up"}, cycles |-> MaxCycles, http |-> FALSE, cancel |-> TRUE,
     ns |-> {1}, customs |-> {1},
     tags |-> {CustomTypes}, approvedSets |-> {ApprovedIDs}]
\* "kinds": one cycle where the custom wallet is configured with any type part,
\* the approved set is any set of provider IDs and a provider may be inactive.
Inactive == [reg |-> TRUE, fil |-> TRUE, usdfc |-> TRUE, pay |-> "normal", active |-> FALSE]
KindTags == {<< "client" >>, << "" >>, << "provider" >>, << "miner" >>}
KindsScenario ==
    [name |-> "kinds", faulty |-> 1, counts |-> 0..KindProviders, faults |-> TRUE,
     approvedFaults |-> TRUE, lookups |-> {AllOk, Inactive, FilFail},
     pings |-> {"up"}, cycles |-> 1, http |-> FALSE, cancel |-> FALSE,
     ns |-> {1}, customs |-> {1},
     tags |-> KindTags, approvedSets |-> SUBSET (1..KindProviders)]
\* "probes": one cycle where the probe of a provider may have every outcome.
ProbesScenario ==
    [name |-> "probes", faulty |-> 1, counts |-> 0..ProbeProviders, faults |-> TRUE,
     approvedFaults |-> FALSE, lookups |-> {AllOk, FilFail},
     pings |-> ProbeOutcomes, cycles |-> 1, http |-> FALSE, cancel |-> FALSE,
     ns |-> {1}, customs |-> {1},
     tags |-> {CustomTypes}, approvedSets |-> {ApprovedIDs}]
\* "ticks": several cycles over a registry of one provider, the ticker firing
\* at any time.
TicksScenario ==
    [name |-> "ticks", faulty |-> 1, counts |-> {1}, faults |-> FALSE,
     approvedFaults |-> FALSE, lookups |-> {AllOk, FilFail},
     pings |-> {"up"}, cycles |-> TickCycles, http |-> FALSE, cancel |-> FALSE,
     ns |-> {1}, customs |-> {1},
     tags |-> {CustomTypes}, approvedSets |-> {ApprovedIDs}]
\* "outage": two cycles over a registry of one provider in either of which
\* GetProviderCount or a unit's lookups may fail.
OutageScenario ==
    [name |-> "outage", faulty |-> 2, counts |-> {1}, faults |-> TRUE,
     approvedFaults |-> FALSE, lookups |-> {AllOk, FilFail},
     pings |-> {"up"}, cycles |-> 2, http |-> FALSE, cancel |-> FALSE,
     ns |-> {1}, customs |-> 0..MaxCustom,
     tags |-> {CustomTypes}, approvedSets |-> {ApprovedIDs}]
Scenarios == {PoolsScenario, StoreScenario, StopScenario}

\* Remote calls may fail in the current cycle.
MayFail == cycle <= env.faulty

\* main after config.Load has succeeded: the exporter runs with cfg.
Booted == [pc |-> "running"]

\* The exporter before Start has taken a step, in one of the environments.
Constructed(scenarios) ==
    /\ env \in scenarios
    /\ sched = "start"
    /\ tickerOn = FALSE
    /\ tickPending = FALSE
    /\ cancelled = FALSE
    /\ cycle = 0
    /\ inProgress = 0
    /\ spc = "idle"
    /\ allWallets = << >>
    /\ pingStarted = FALSE
    /\ pingJoined = FALSE
    /\ pingResults = {}
    /\ ppc = EmptyPoolFn("idle")
    /\ unit = [p \in Pools |-> [u \in UnitIds |-> "none"]]
    /\ sem = EmptyPoolFn(0)
    /\ walletChan = EmptyPoolFn(<< >>)
    /\ errorChan = EmptyPoolFn(<< >>)
    /\ chanCap = EmptyPoolFn(0)
    /\ closed = EmptyPoolFn(FALSE)
    /\ result = EmptyPoolFn(<< >>)
    /\ errs = EmptyPoolFn(0)
    /\ pingMap = {}
    /\ approvedMap = {}
    /\ wallets = [gen |-> 0, recs |-> << >>, arr |-> 0]
    /\ lastScrape = 0
    /\ writer = FALSE
    /\ readers = 0
    /\ series = {}
    /\ fillIdx = 0
    /\ scrapeErrors = 0
    /\ assembled = [c \in 1..env.cycles |-> NotAssembled]
    /\ remote = [c \in 1..env.cycles |-> NotAsked]
    /\ published = [c \in 1..env.cycles |-> NotPublished]
    /\ lateCalls = {}
    /\ ticks = 0
    /\ backing = [a \in 0..env.cycles |-> << >>]
    /\ rpc = "idle"
    /\ seenWallets = NoWallets
    /\ seenLast = 0

\* The exporter constructed by main from a loaded configuration.
InitOf(scenarios) ==
    /\ Constructed(scenarios)
    /\ cfg \in [N : env.ns, custom : env.customs, tags : env.tags]
    /\ boot = Booted

Init == InitOf(Scenarios)


\* ------------------------------------------------------------- scheduler
\* The frame of a new scrape call: start of the function, locals zero-valued.
BeginScrape ==
    /\ cycle' = cycle + 1
    /\ inProgress' = inProgress + 1
    /\ spc' = "fetch_providers"
    /\ allWallets' = << >>
    /\ pingStarted' = FALSE
    /\ pingJoined' = FALSE
    /\ pingResults' = {}
    /\ remote' = [remote EXCEPT ![cycle + 1] = [NotAsked EXCEPT !.errs0 = scrapeErrors]]

\* Start calls scrape synchronously: it goes on to the ticker and the select
\* only after the call has returned.
ScrapeDetached == FALSE
ScrapeBlocks == TRUE

\* The ticker case of the select is ready only when ticker.C holds a tick.
SelectTickAlways == TRUE
SelectTickReady == tickPending

\* Start: the initial scrape, before the ticker is created.
StartInitialScrape ==
    /\ boot.pc = "running"
    /\ sched = "start"
    /\ cycle < env.cycles
    /\ sched' = IF ScrapeBlocks THEN "initial_scrape" ELSE "select"
    /\ tickerOn' = IF ScrapeBlocks THEN tickerOn ELSE TRUE
    /\ BeginScrape
    /\ UNCHANGED << env, cfg, procVars, published, lateCalls, tickPending, cancelled >>
    /\ UNCHANGED << poolVars, storeVars, pubVars, readerVars >>

\* The runtime ticker: a tick is delivered into ticker.C when it has room and
\* dropped otherwise.
TickFire ==
    /\ tickerOn
    /\ ~tickPending
    /\ tickPending' = TRUE
    /\ ticks' = ticks + 1
    /\ UNCHANGED << env, cfg, boot, backing, histVars, sched, tickerOn, cancelled >>
    /\ UNCHANGED << frameVars, poolVars, storeVars, pubVars, readerVars >>

\* What ticker.C holds after the receive of the select: the tick is taken out.
TakeTickLeaves == tickPending
TakeTick == FALSE

\* Start: case <-ticker.C of the select.
SelectTick ==
    /\ sched = "select"
    /\ SelectTickReady
    /\ cycle < env.cycles
    /\ tickPending' = TakeTick
    /\ sched' = IF ScrapeBlocks THEN "scraping" ELSE "select"
    /\ BeginScrape
    /\ UNCHANGED << env, cfg, procVars, published, lateCalls, tickerOn, cancelled >>
    /\ UNCHANGED << poolVars, storeVars, pubVars, readerVars >>

\* Start: return ctx.Err() leaves the loop for good.
AfterDoneLoops == "select"
AfterDone == "stopped"

\* Start: case <-ctx.Done() of the select; the deferred ticker.Stop runs.
SelectDone ==
    /\ sched = "select"
    /\ cancelled
    /\ sched' = AfterDone
    /\ tickerOn' = FALSE
    /\ UNCHANGED << env, cfg, procVars, histVars, tickPending, cancelled >>
    /\ UNCHANGED << frameVars, poolVars, storeVars, pubVars, readerVars >>

\* main: cancel() after the interrupt signal.
Cancel ==
    /\ env.cancel
    /\ ~cancelled
    /\ cancelled' = TRUE
    /\ UNCHANGED << env, cfg, procVars, histVars, sched, tickerOn, tickPending >>
    /\ UNCHANGED << frameVars, poolVars, storeVars, pubVars, readerVars >>

\* ----------------------------------------------------------- worker pools
\* make(chan WalletInfo, n) / make(chan error, n): one buffer slot per unit.
ChanCapUnbuffered(n) == 0
ChanCap(n) == n

\* semaphore <- struct{}{} proceeds only while the channel (capacity N) has room.
SemNoLimit(p) == TRUE
SemHasRoom(p) == sem[p] < cfg.N

\* wg.Wait() returns once every dispatched unit has run its deferred wg.Done().
NotWaited(p) == TRUE
AllUnitsDone(p) == \A u \in UnitIds : unit[p][u] \in {"none", "done"}

Dispatched(p) == {u \in UnitIds : unit[p][u] # "none"}
Running(p) == {u \in UnitIds : unit[p][u] = "running"}
Waiting(p) == {u \in UnitIds : unit[p][u] = "waiting"}

\* approvedMap[id]: the provider is approved when its ID was in the list.
IsApprovedAlways(id, ids) == TRUE
IsApproved(id, ids) == id \in ids

\* The record unit u of an enrichment pool builds in the current cycle from
\* the answers o.
UnitRecord(p, u, o) ==
    IF p = "prov" THEN ProviderRecord(u, cycle, o, IsApproved(u, approvedMap))
    ELSE CustomRecord(u, cycle, o)

\* The answers the lookups of a unit of pool p can get now.  The lookups of a
\* unit are taken at one instant.  Only BalanceAt is given ctx: once ctx is
\* cancelled it fails at once; the contract reads are called with nil options
\* and are not bound to ctx.
UnitLookups(p) ==
    LET base == IF MayFail THEN {o \in env.lookups : p = "cust" => (o.reg /\ o.active)}
                ELSE {AllOk}
    IN IF cancelled THEN {o \in base : ~o.reg} \cup {FilFail} ELSE base

\* The remote calls an enrichment unit of pool p with answers o sends out when
\* ctx is already cancelled: a provider's GetProvider; BalanceAt is not sent.
CancelledCalls(p, o) == IF p = "prov" THEN {"GetProvider"} ELSE {}
NoteLateCalls(calls) == IF cancelled THEN lateCalls \cup calls ELSE lateCalls

\* What GetApprovedProviders can answer now: a set of IDs, or an error, after
\* which the approved list is taken as empty.
ApprovedOnErrorAsReturned == ApprovedIDs
ApprovedOnError == {}
ApprovedAnswers ==
    {[ok |-> TRUE, ids |-> s] : s \in env.approvedSets}
        \cup (IF env.approvedFaults /\ MayFail
              THEN {[ok |-> FALSE, ids |-> ApprovedOnError]} ELSE {})

\* The dispatch loop runs over every provider ID 1..providerCount.
MonitoredApprovedOnly(u, n) == u <= n /\ u \in approvedMap'
Monitored(u, n) == u <= n

\* scrape after fetchProviderWallets returned an error: it logs a warning,
\* starts no ping goroutine and goes on with the custom wallets.
AfterProviderErrorReturns == "defer"
AfterProviderError == "fetch_custom"

\* fetchProviderWallets up to the dispatch loop: GetProviderCount,
\* GetApprovedProviders, the channels, one goroutine per provider ID 1..count.
FetchProvidersCall ==
    /\ spc = "fetch_providers"
    /\ \/ \* GetProviderCount fails: return nil, err; scrape logs and goes on
          /\ env.faults /\ MayFail
          /\ spc' = AfterProviderError
          /\ remote' = [remote EXCEPT ![cycle].count = [st |-> "fail", n |-> 0]]
          /\ UNCHANGED << poolVars, scrapeErrors >>
       \/ \E n \in env.counts, ans \in ApprovedAnswers :
          /\ scrapeErrors' = IF ans.ok THEN scrapeErrors ELSE scrapeErrors + 1
          /\ approvedMap' = ans.ids
          /\ remote' = [remote EXCEPT ![cycle].count = [st |-> "ok", n |-> n],
                                      ![cycle].approved = IF ans.ok THEN "ok" ELSE "fail",
                                      ![cycle].approvedIDs = ans.ids]
          /\ unit' = [unit EXCEPT !["prov"] =
                        [u \in UnitIds |-> IF Monitored(u, n) THEN "waiting" ELSE "none"]]
          /\ chanCap' = [chanCap EXCEPT !["prov"] = ChanCap(n)]
          /\ ppc' = [ppc EXCEPT !["prov"] = "collect"]
          /\ spc' = "in_fetch_providers"
          /\ UNCHANGED << sem, walletChan, errorChan, closed, result, errs, pingMap >>
    /\ UNCHANGED << env, cfg, procVars, published, lateCalls, schedVars, cycle, inProgress, allWallets,
                    pingStarted, pingJoined, pingResults, storeVars, series, fillIdx, assembled,
                    readerVars >>

\* fetchCustomWallets up to the dispatch loop; an empty list returns at once.
FetchCustomCall ==
    /\ spc = "fetch_custom"
    /\ IF cfg.custom = 0
       THEN /\ spc' = "wait_ping"
            /\ ppc' = [ppc EXCEPT !["cust"] = "returned"]
            /\ UNCHANGED << unit, chanCap >>
       ELSE /\ unit' = [unit EXCEPT !["cust"] =
                          [u \in UnitIds |-> IF u <= cfg.custom THEN "waiting" ELSE "none"]]
            /\ chanCap' = [chanCap EXCEPT !["cust"] = ChanCap(cfg.custom)]
            /\ ppc' = [ppc EXCEPT !["cust"] = "collect"]
            /\ spc' = "in_fetch_custom"
    /\ UNCHANGED << sem, walletChan, errorChan, closed, result, errs, pingMap, approvedMap >>
    /\ UNCHANGED << env, cfg, procVars, histVars, schedVars, cycle, inProgress, allWallets, pingStarted,
                    pingJoined, pingResults, storeVars, pubVars, readerVars >>

\* A unit goroutine takes a semaphore slot.
Acquire(p, u) ==
    /\ unit[p][u] = "waiting"
    /\ SemHasRoom(p)
    /\ sem' = [sem EXCEPT ![p] = @ + 1]
    /\ unit' = [unit EXCEPT ![p][u] = "running"]
    /\ UNCHANGED << ppc, walletChan, errorChan, chanCap, closed, result, errs, pingMap, approvedMap >>
    /\ UNCHANGED << env, cfg, procVars, histVars, schedVars, frameVars, storeVars, pubVars, readerVars >>

\* What a unit whose record is built adds to scrapeErrors: a failed secondary
\* lookup is logged with Warn and not counted.
DegradeCounted(o) == IF o.usdfc /\ o.pay # "err" THEN 0 ELSE 1
DegradeCount(o) == 0

\* An enrichment unit's foundational lookups succeed: walletChan <- wallet,
\* then the deferred slot release and wg.Done().
FinishOk(p, u) ==
    /\ p \in ChanPools
    /\ unit[p][u] = "running"
    /\ Len(walletChan[p]) < chanCap[p]
    /\ \E o \in UnitLookups(p) :
          /\ Foundational(p, o)
          /\ walletChan' = [walletChan EXCEPT ![p] = Append(@, UnitRecord(p, u, o))]
          /\ remote' = [remote EXCEPT ![cycle].answers[p][u] = o,
                                      ![cycle].calls[p][u] = @ + 1]
          /\ lateCalls' = NoteLateCalls(CancelledCalls(p, o))
          /\ scrapeErrors' = scrapeErrors + DegradeCount(o)
    /\ sem' = [sem EXCEPT ![p] = @ - 1]
    /\ unit' = [unit EXCEPT ![p][u] = "done"]
    /\ UNCHANGED << ppc, errorChan, chanCap, closed, result, errs, pingMap, approvedMap >>
    /\ UNCHANGED << env, cfg, procVars, published, schedVars, frameVars, storeVars, series, fillIdx,
                    assembled, readerVars >>

\* The goroutine of a unit returns right after the send on errorChan: nothing
\* is sent on walletChan for it.
FallThroughAfterError(ch, w) == Append(ch, w)
ReturnAfterError(ch, w) == ch

\* An enrichment unit's foundational lookup fails: errorChan <- err, then the
\* deferred slot release and wg.Done().
FinishErr(p, u) ==
    /\ p \in ChanPools
    /\ unit[p][u] = "running"
    /\ Len(errorChan[p]) < chanCap[p]
    /\ \E o \in UnitLookups(p) :
          /\ ~Foundational(p, o)
          /\ remote' = [remote EXCEPT ![cycle].answers[p][u] = o,
                                      ![cycle].calls[p][u] = @ + 1]
          /\ lateCalls' = NoteLateCalls(CancelledCalls(p, o))
          /\ walletChan' = [walletChan EXCEPT ![p] = ReturnAfterError(@, UnitRecord(p, u, o))]
    /\ errorChan' = [errorChan EXCEPT ![p] = Append(@, u)]
    /\ sem' = [sem EXCEPT ![p] = @ - 1]
    /\ unit' = [unit EXCEPT ![p][u] = "done"]
    /\ UNCHANGED << ppc, chanCap, closed, result, errs, pingMap, approvedMap >>
    /\ UNCHANGED << env, cfg, procVars, published, schedVars, frameVars, storeVars, pubVars, readerVars >>

\* The closer goroutine: wg.Wait(); close(walletChan); close(errorChan).
Closer(p) ==
    /\ p \in ChanPools
    /\ ppc[p] \in {"collect", "errors"}
    /\ ~closed[p]
    /\ AllUnitsDone(p)
    /\ closed' = [closed EXCEPT ![p] = TRUE]
    /\ UNCHANGED << ppc, unit, sem, walletChan, errorChan, chanCap, result, errs, pingMap, approvedMap >>
    /\ UNCHANGED << env, cfg, procVars, histVars, schedVars, frameVars, storeVars, pubVars, readerVars >>

\* for wallet := range walletChan: one received value appended.
CollectWallet(p) ==
    /\ ppc[p] = "collect"
    /\ walletChan[p] # << >>
    /\ result' = [result EXCEPT ![p] = Append(@, Head(walletChan[p]))]
    /\ walletChan' = [walletChan EXCEPT ![p] = Tail(@)]
    /\ UNCHANGED << ppc, unit, sem, errorChan, chanCap, closed, errs, pingMap, approvedMap >>
    /\ UNCHANGED << env, cfg, procVars, histVars, schedVars, frameVars, storeVars, pubVars, readerVars >>

\* The range over walletChan ends: the channel is closed and drained.
CollectWalletsEnd(p) ==
    /\ ppc[p] = "collect"
    /\ walletChan[p] = << >>
    /\ closed[p]
    /\ ppc' = [ppc EXCEPT ![p] = "errors"]
    /\ UNCHANGED << unit, sem, walletChan, errorChan, chanCap, closed, result, errs, pingMap, approvedMap >>
    /\ UNCHANGED << env, cfg, procVars, histVars, schedVars, frameVars, storeVars, pubVars, readerVars >>

\* e.scrapeErrors.Inc() for an error drained from errorChan.
CountErrorNot(n) == n
CountError(n) == n + 1

\* for err := range errorChan: one error logged and counted.
CollectError(p) ==
    /\ ppc[p] = "errors"
    /\ errorChan[p] # << >>
    /\ errorChan' = [errorChan EXCEPT ![p] = Tail(@)]
    /\ errs' = [errs EXCEPT ![p] = @ + 1]
    /\ scrapeErrors' = CountError(scrapeErrors)
    /\ UNCHANGED << ppc, unit, sem, walletChan, chanCap, closed, result, pingMap, approvedMap >>
    /\ UNCHANGED << env, cfg, procVars, histVars, schedVars, frameVars, storeVars, series, fillIdx, assembled,
                    readerVars >>

\* The backing array of scrape's allWallets: append to the nil slice allocates
\* a new array, one per scrape call (a later append that outgrows it moves to
\* another array no one else holds, which is not told apart).
ReuseStored(c) == wallets.arr
AllocArray(c) == c

\* The contents of a backing array after a slice of it was written from its
\* first element on.
WriteArray(old, new) == new \o SubSeq(old, Len(new) + 1, Len(old))

\* fetchProviderWallets returns (wallets, nil); scrape appends them and starts
\* the ping goroutine.
FetchProvidersReturn ==
    /\ spc = "in_fetch_providers"
    /\ ppc["prov"] = "errors"
    /\ errorChan["prov"] = << >>
    /\ closed["prov"]
    /\ ppc' = [ppc EXCEPT !["prov"] = "returned", !["ping"] = "called"]
    /\ allWallets' = allWallets \o result["prov"]
    /\ backing' = [backing EXCEPT ![AllocArray(cycle)] = WriteArray(@, allWallets')]
    /\ pingStarted' = TRUE
    /\ spc' = "fetch_custom"
    /\ UNCHANGED << unit, sem, walletChan, errorChan, chanCap, closed, result, errs, pingMap, approvedMap >>
    /\ UNCHANGED << env, cfg, boot, ticks, histVars, schedVars, cycle, inProgress, pingJoined, pingResults,
                    storeVars, pubVars, readerVars >>

\* fetchCustomWallets returns (wallets, nil); scrape appends them.
FetchCustomReturn ==
    /\ spc = "in_fetch_custom"
    /\ ppc["cust"] = "errors"
    /\ errorChan["cust"] = << >>
    /\ closed["cust"]
    /\ ppc' = [ppc EXCEPT !["cust"] = "returned"]
    /\ allWallets' = allWallets \o result["cust"]
    /\ backing' = [backing EXCEPT ![AllocArray(cycle)] = WriteArray(@, allWallets')]
    /\ spc' = "wait_ping"
    /\ UNCHANGED << unit, sem, walletChan, errorChan, chanCap, closed, result, errs, pingMap, approvedMap >>
    /\ UNCHANGED << env, cfg, boot, ticks, histVars, schedVars, cycle, inProgress, pingStarted, pingJoined,
                    pingResults, storeVars, pubVars, readerVars >>

\* pingProviders' dispatch loop: one goroutine per provider with ProviderID # 0.
PingProvidersCall ==
    /\ ppc["ping"] = "called"
    /\ unit' = [unit EXCEPT !["ping"] =
                  [u \in UnitIds |->
                      IF u <= Len(result["prov"]) /\ result["prov"][u].ProviderID # 0
                      THEN "waiting" ELSE "none"]]
    /\ ppc' = [ppc EXCEPT !["ping"] = "wait"]
    /\ UNCHANGED << sem, walletChan, errorChan, chanCap, closed, result, errs, pingMap, approvedMap >>
    /\ UNCHANGED << env, cfg, procVars, histVars, schedVars, frameVars, storeVars, pubVars, readerVars >>

\* A probe unit ends: the result of pingProvider, when there is one, is stored
\* in the results map under mu.
PingFinish(u) ==
    /\ unit["ping"][u] = "running"
    /\ \E o \in (IF MayFail THEN env.pings ELSE {"up"}) :
          LET id == result["prov"][u].ProviderID
              r == pingProvider(id, o)
          IN /\ pingMap' = IF r.ok THEN {x \in pingMap : x.ProviderID # id} \cup {r.res}
                           ELSE pingMap
             /\ remote' = [remote EXCEPT ![cycle].probes[id] = o]
             /\ lateCalls' = NoteLateCalls({"GetProviderWithProduct"} \cup
                                           (IF r.ok THEN {"http.Get"} ELSE {}))
    /\ sem' = [sem EXCEPT !["ping"] = @ - 1]
    /\ unit' = [unit EXCEPT !["ping"][u] = "done"]
    /\ UNCHANGED << ppc, walletChan, errorChan, chanCap, closed, result, errs, approvedMap >>
    /\ UNCHANGED << env, cfg, procVars, published, schedVars, frameVars, storeVars, pubVars, readerVars >>

\* pingProviders: wg.Wait() passes and the map is returned; the goroutine of
\* scrape assigns it to pingResults and runs wg.Done().
PingProvidersReturn ==
    /\ ppc["ping"] = "wait"
    /\ AllUnitsDone("ping")
    /\ ppc' = [ppc EXCEPT !["ping"] = "returned"]
    /\ pingResults' = pingMap
    /\ pingJoined' = TRUE
    /\ UNCHANGED << unit, sem, walletChan, errorChan, chanCap, closed, result, errs, pingMap, approvedMap >>
    /\ UNCHANGED << env, cfg, procVars, histVars, schedVars, cycle, inProgress, spc, allWallets, pingStarted,
                    storeVars, pubVars, readerVars >>

\* --------------------------------------------------- snapshot replacement
\* scrape's wg.Wait(): passes when no ping goroutine was started or it is done.
PingsNotJoined == TRUE
PingsJoined == pingStarted => pingJoined

\* The probes leave scrape's allWallets as the two enrichment pools built it.
JoinedWalletsReachableOnly(list, pr) ==
    SelectSeq(list, LAMBDA w : w.Type # "provider"
                                  \/ \E r \in pr : r.ProviderID = w.ProviderID /\ r.Success)
JoinedWallets(list, pr) == list

WaitPings ==
    /\ spc = "wait_ping"
    /\ PingsJoined
    /\ spc' = "lock"
    /\ allWallets' = JoinedWallets(allWallets, pingResults)
    /\ assembled' = [assembled EXCEPT ![cycle] =
                        [done |-> TRUE, recs |-> allWallets', pings |-> pingResults]]
    /\ UNCHANGED << env, cfg, procVars, histVars, schedVars, cycle, inProgress, pingStarted,
                    pingJoined, pingResults, poolVars, storeVars, series, fillIdx,
                    scrapeErrors, readerVars >>

\* e.walletsMux.Lock()
LockWallets ==
    /\ spc = "lock"
    /\ ~writer
    /\ readers = 0
    /\ writer' = TRUE
    /\ spc' = "write_wallets"
    /\ UNCHANGED << env, cfg, procVars, histVars, schedVars, cycle, inProgress, allWallets, pingStarted,
                    pingJoined, pingResults, poolVars, wallets, lastScrape, readers,
                    pubVars, readerVars >>

\* The slice scrape stores: the fully appended allWallets.
StoredListProvidersOnly == result["prov"]
StoredList == allWallets

\* e.wallets = allWallets: the slice header (array, length) is stored.
WriteWallets ==
    /\ spc = "write_wallets"
    /\ wallets' = [gen |-> cycle, recs |-> StoredList, arr |-> AllocArray(cycle)]
    /\ spc' = "unlock"
    /\ UNCHANGED << env, cfg, procVars, histVars, schedVars, cycle, inProgress, allWallets, pingStarted,
                    pingJoined, pingResults, poolVars, lastScrape, writer, readers,
                    pubVars, readerVars >>

\* e.walletsMux.Unlock()
UnlockWallets ==
    /\ spc = "unlock"
    /\ writer' = FALSE
    /\ spc' = "reset_metrics"
    /\ UNCHANGED << env, cfg, procVars, histVars, schedVars, cycle, inProgress, allWallets, pingStarted,
                    pingJoined, pingResults, poolVars, wallets, lastScrape, readers,
                    pubVars, readerVars >>

\* ------------------------------------------------------ metric publication
Digits == << "0", "1", "2", "3", "4", "5", "6", "7", "8", "9" >>

\* fmt.Sprintf("%d", n)
RECURSIVE FmtUint(_)
FmtUint(n) ==
    IF n < 10 THEN Digits[n + 1] ELSE FmtUint(n \div 10) \o Digits[(n % 10) + 1]

\* The provider_id label: empty for every kind but provider.
ProviderIDLabel(w) == IF w.Type # "provider" THEN "" ELSE FmtUint(w.ProviderID)

\* fmt.Sprintf("%t", b), emptied for every kind but provider.
FmtBool(b) == IF b THEN "true" ELSE "false"
BoolLabelPlain(w, b) == FmtBool(b)
BoolLabel(w, b) == IF w.Type # "provider" THEN "" ELSE FmtBool(b)

\* wallet.Address.Hex()
AddrHex(addr) == addr[1] \o FmtUint(addr[2])

\* The gauge value of a token amount x: x / 1e18; of an epoch x: x as it is.
\* A value is kept as << numerator, scale >>.
ToUnits(x) == << x, "1e18" >>
ToFloat(x) == << x, "1" >>

\* The label values shared by the balance, payment and info families, in the
\* order address, type, provider_id, is_active, approved.
WalletLabels(w) ==
    << AddrHex(w.Address), w.Type, ProviderIDLabel(w),
       BoolLabel(w, w.IsActive), BoolLabel(w, w.IsApproved) >>

\* The label values of the ping families, in the order address, provider_id.
PingLabels(w) == << AddrHex(w.Address), ProviderIDLabel(w) >>

WalletFamilies ==
    {"fil_balance", "usdfc_balance", "payments_funds", "payments_available",
     "payments_locked", "payments_funded_until", "wallet_info"}

\* The series updateMetrics sets for one wallet: one in each balance and
\* payment family, the info series with value 1 and, for a provider with a
\* ping result, the ping success and ping duration series.
WalletSeries(w, pr) ==
    {[fam |-> "fil_balance", labels |-> WalletLabels(w), value |-> ToUnits(w.FILBalance)],
     [fam |-> "usdfc_balance", labels |-> WalletLabels(w), value |-> ToUnits(w.USDFCBalance)],
     [fam |-> "payments_funds", labels |-> WalletLabels(w), value |-> ToUnits(w.PaymentsFunds)],
     [fam |-> "payments_available", labels |-> WalletLabels(w),
      value |-> ToUnits(w.PaymentsAvailable)],
     [fam |-> "payments_locked", labels |-> WalletLabels(w),
      value |-> ToUnits(w.PaymentsLocked)],
     [fam |-> "payments_funded_until", labels |-> WalletLabels(w),
      value |-> ToFloat(w.PaymentsFundedUntil)],
     [fam |-> "wallet_info", labels |-> WalletLabels(w), value |-> ToFloat(1)]}
    \cup
    (IF w.Type = "provider"
     THEN {[fam |-> "ping_success", labels |-> PingLabels(w),
            value |-> ToFloat(IF r.Success THEN 1 ELSE 0)]
           : r \in {x \in pr : x.ProviderID = w.ProviderID}}
          \cup
          {[fam |-> "ping_duration", labels |-> PingLabels(w), value |-> ToFloat(r.Duration)]
           : r \in {x \in pr : x.ProviderID = w.ProviderID}}
     ELSE {})

\* The wallet the i-th iteration of the loop over wallets publishes.
FillRecordByPosition(list, i) ==
    IF list[i].Type = "provider" THEN [list[i] EXCEPT !.ProviderID = i] ELSE list[i]
FillRecord(list, i) == list[i]

\* GaugeVec.With(labels).Set(v) for each new series: the value of a label set
\* already present is replaced.
SetSeries(old, new) ==
    {x \in old : \A y \in new : ~(x.fam = y.fam /\ x.labels = y.labels)} \cup new

\* GaugeVec.Reset(): every series of the family is deleted.
ResetKeeps(s) == s
ResetVec(s) == {}

\* What updateMetrics leaves in the registry for a whole list.
RECURSIVE RenderFrom(_, _, _, _)
RenderFrom(s, list, pr, i) ==
    IF i > Len(list) THEN s
    ELSE RenderFrom(SetSeries(s, WalletSeries(FillRecord(list, i), pr)), list, pr, i + 1)
Render(list, pr) == RenderFrom({}, list, pr, 1)

\* updateMetrics: the nine Reset() calls.
MetricsReset ==
    /\ spc = "reset_metrics"
    /\ series' = ResetVec(series)
    /\ fillIdx' = 1
    /\ spc' = IF allWallets = << >> THEN "defer" ELSE "fill_metrics"
    /\ UNCHANGED << env, cfg, procVars, histVars, schedVars, cycle, inProgress, allWallets, pingStarted,
                    pingJoined, pingResults, poolVars, storeVars, scrapeErrors,
                    assembled, readerVars >>

\* updateMetrics: one iteration of the loop over wallets.
MetricsFill ==
    /\ spc = "fill_metrics"
    /\ series' = SetSeries(series, WalletSeries(FillRecord(allWallets, fillIdx), pingResults))
    /\ fillIdx' = fillIdx + 1
    /\ spc' = IF fillIdx = Len(allWallets) THEN "defer" ELSE "fill_metrics"
    /\ UNCHANGED << env, cfg, procVars, histVars, schedVars, cycle, inProgress, allWallets, pingStarted,
                    pingJoined, pingResults, poolVars, storeVars, scrapeErrors,
                    assembled, readerVars >>

\* What a /metrics request served now returns for the wallet and ping families.
Gather == series

\* scrape's deferred function starts: scrapeDuration.Set, then the store to
\* e.lastScrape begins (walletsMux is not taken).
DeferBegin ==
    /\ spc = "defer"
    /\ spc' = "write_last"
    /\ published' = [published EXCEPT ![cycle] = [done |-> TRUE, series |-> series]]
    /\ UNCHANGED << env, cfg, procVars, remote, lateCalls, schedVars, cycle, inProgress, allWallets,
                    pingStarted, pingJoined, pingResults, poolVars, storeVars, pubVars,
                    readerVars >>

\* e.lastScrape = time.Now() completes.
WriteLastScrape ==
    /\ spc = "write_last"
    /\ lastScrape' = cycle
    /\ spc' = "return"
    /\ UNCHANGED << env, cfg, procVars, histVars, schedVars, cycle, inProgress, allWallets, pingStarted,
                    pingJoined, pingResults, poolVars, wallets, writer, readers,
                    pubVars, readerVars >>

\* What scrape returns: nil, whatever the pools reported.
ScrapeResultProviderErr == IF remote[cycle].count.st = "fail" THEN "err" ELSE "nil"
ScrapeResult == "nil"

\* scrape returns to Start, which counts a non-nil result as a scrape error and
\* goes (back) to the select; after the initial scrape Start creates the ticker.
ScrapeReturn ==
    /\ spc = "return"
    /\ spc' = "idle"
    /\ scrapeErrors' = IF ScrapeResult = "nil" THEN scrapeErrors ELSE scrapeErrors + 1
    /\ inProgress' = inProgress - 1
    /\ sched' = "select"
    /\ tickerOn' = IF sched = "initial_scrape" THEN TRUE ELSE tickerOn
    /\ allWallets' = << >>
    /\ pingStarted' = FALSE
    /\ pingJoined' = FALSE
    /\ pingResults' = {}
    /\ fillIdx' = 0
    /\ ppc' = EmptyPoolFn("idle")
    /\ unit' = [p \in Pools |-> [u \in UnitIds |-> "none"]]
    /\ sem' = EmptyPoolFn(0)
    /\ walletChan' = EmptyPoolFn(<< >>)
    /\ errorChan' = EmptyPoolFn(<< >>)
    /\ chanCap' = EmptyPoolFn(0)
    /\ closed' = EmptyPoolFn(FALSE)
    /\ result' = EmptyPoolFn(<< >>)
    /\ errs' = EmptyPoolFn(0)
    /\ pingMap' = {}
    /\ approvedMap' = {}
    /\ UNCHANGED << env, cfg, procVars, histVars, tickPending, cancelled, cycle, storeVars, series,
                    assembled, readerVars >>

\* -------------------------------------------------------- /status handler
\* A read of e.lastScrape: while the unsynchronised store is in progress the
\* racing load may return the old value, the new value or a torn one.
LastScrapeRead ==
    IF spc = "write_last" THEN {lastScrape, cycle, Torn} ELSE {lastScrape}

\* GetWallets / GetLastScrape: e.walletsMux.RLock()
StatusRLock ==
    /\ rpc \in {"idle", "got_wallets"}
    /\ rpc = "idle" => env.http
    /\ ~writer
    /\ readers' = readers + 1
    /\ rpc' = IF rpc = "idle" THEN "wallets_locked" ELSE "last_locked"
    /\ UNCHANGED << env, cfg, procVars, histVars, schedVars, frameVars, poolVars, wallets, lastScrape, writer,
                    pubVars, seenWallets, seenLast >>

\* GetWallets: return e.wallets, then the deferred RUnlock.
StatusGetWallets ==
    /\ rpc = "wallets_locked"
    /\ seenWallets' = wallets
    /\ readers' = readers - 1
    /\ rpc' = "got_wallets"
    /\ UNCHANGED << env, cfg, procVars, histVars, schedVars, frameVars, poolVars, wallets, lastScrape, writer,
                    pubVars, seenLast >>

\* GetLastScrape: return e.lastScrape, then the deferred RUnlock.
StatusGetLastScrape ==
    /\ rpc = "last_locked"
    /\ seenLast' \in LastScrapeRead
    /\ readers' = readers - 1
    /\ rpc' = "got_both"
    /\ UNCHANGED << env, cfg, procVars, histVars, schedVars, frameVars, poolVars, wallets, lastScrape, writer,
                    pubVars, seenWallets >>

\* The handler writes its response and ends.
StatusRespond ==
    /\ rpc = "got_both"
    /\ rpc' = "idle"
    /\ seenWallets' = NoWallets
    /\ seenLast' = 0
    /\ UNCHANGED << env, cfg, procVars, histVars, schedVars, frameVars, poolVars, storeVars, pubVars >>

\* ------------------------------------------------------------ config.Load
\* A string of the process environment is kept as the sequence of its tokens:
\* a token is one of the separators ":" and ",", a space, a sign, a decimal
\* digit, or a word free of all of these; << >> is the empty string (and an
\* unset variable, which os.Getenv does not tell apart).
RECURSIVE Text(_)
Text(s) == IF s = << >> THEN "" ELSE Head(s) \o Text(Tail(s))

\* strings.Split(s, sep)
RECURSIVE Split(_, _)
Split(s, sep) ==
    IF \A i \in 1..Len(s) : s[i] # sep THEN << s >>
    ELSE LET i == CHOOSE k \in 1..Len(s) : s[k] = sep /\ \A j \in 1..(k - 1) : s[j] # sep
         IN << SubSeq(s, 1, i - 1) >> \o Split(SubSeq(s, i + 1, Len(s)), sep)

\* strings.TrimSpace(s)
RECURSIVE TrimLeft(_)
TrimLeft(s) == IF s # << >> /\ Head(s) = " " THEN TrimLeft(Tail(s)) ELSE s
RECURSIVE TrimRight(_)
TrimRight(s) ==
    IF s # << >> /\ s[Len(s)] = " " THEN TrimRight(SubSeq(s, 1, Len(s) - 1)) ELSE s
TrimSpace(s) == TrimRight(TrimLeft(s))

\* parseWalletEntry: an entry needs an address part and a name part.
EnoughPartsThree(parts) == Len(parts) >= 3
EnoughParts(parts) == Len(parts) >= 2

\* parseWalletEntry(entry): nil is << >>, a wallet w is << w >>.
parseWalletEntry(entry) ==
    LET parts == Split(TrimSpace(entry), ":")
    IN IF ~EnoughParts(parts) THEN << >>
       ELSE << [Address |-> Text(TrimSpace(parts[1])),
                Name |-> Text(TrimSpace(parts[2])),
                Type |-> EntryType(IF Len(parts) >= 3 THEN Text(TrimSpace(parts[3]))
                                   ELSE "")] >>

\* The loop over entries that appends every wallet parsed.
RECURSIVE ParseEntries(_)
ParseEntries(entries) ==
    IF entries = << >> THEN << >>
    ELSE parseWalletEntry(Head(entries)) \o ParseEntries(Tail(entries))

parseLegacyFormat(walletsStr) == ParseEntries(Split(walletsStr, ","))

\* getEnv(key, defaultValue)
getEnv(osenv, key, defaultValue) == IF osenv[key] # << >> THEN osenv[key] ELSE defaultValue

\* parseCustomWallets: CUSTOM_WALLETS first, then CUSTOM_WALLET_1, _2, ...; an
\* unset key is skipped (an empty entry yields no wallet either way).
parseCustomWallets(osenv) ==
    (IF getEnv(osenv, "CUSTOM_WALLETS", << >>) # << >>
     THEN parseLegacyFormat(getEnv(osenv, "CUSTOM_WALLETS", << >>)) ELSE << >>)
        \o ParseEntries(osenv.CUSTOM_WALLET_N)

\* strconv.Atoi(s) on the strings considered (none near the width of int):
\* an optional sign and one or more decimal digits.
DigitSet == {Digits[i] : i \in 1..10}
DigitValue(c) == CHOOSE d \in 0..9 : Digits[d + 1] = c
RECURSIVE ToNat(_)
ToNat(s) ==
    IF s = << >> THEN 0
    ELSE ToNat(SubSeq(s, 1, Len(s) - 1)) * 10 + DigitValue(s[Len(s)])
Unsigned(s) == IF s # << >> /\ Head(s) \in {"-", "+"} THEN Tail(s) ELSE s
Negative(s) == s # << >> /\ Head(s) = "-"
Atoi(s) ==
    LET body == Unsigned(s)
    IN IF body # << >> /\ \A i \in 1..Len(body) : body[i] \in DigitSet
       THEN [ok |-> TRUE, v |-> IF Negative(s) THEN 0 - ToNat(body) ELSE ToNat(body)]
       ELSE [ok |-> FALSE, v |-> 0]

\* time.ParseDuration(s), in milliseconds, on strings without a fraction and
\* with units of a millisecond and more: an optional sign, then "0" or one or
\* more groups of decimal digits followed by a unit.
UnitMap == [ms |-> 1, s |-> 1000, m |-> 60000, h |-> 3600000]
LeadingDigits(s) ==
    Cardinality({k \in 1..Len(s) : \A i \in 1..k : s[i] \in DigitSet})
LeadingUnit(s) ==
    Cardinality({k \in 1..Len(s) : \A i \in 1..k : s[i] \notin DigitSet})
RECURSIVE ParseGroups(_)
ParseGroups(s) ==
    IF s = << >> THEN [ok |-> TRUE, v |-> 0]
    ELSE LET n == LeadingDigits(s)
             rest == SubSeq(s, n + 1, Len(s))
             k == LeadingUnit(rest)
             u == Text(SubSeq(rest, 1, k))
             more == ParseGroups(SubSeq(rest, k + 1, Len(rest)))
         IN IF n = 0 \/ u \notin DOMAIN UnitMap \/ ~more.ok
            THEN [ok |-> FALSE, v |-> 0]
            ELSE [ok |-> TRUE, v |-> ToNat(SubSeq(s, 1, n)) * UnitMap[u] + more.v]
ParseDuration(s) ==
    LET body == Unsigned(s)
        g == ParseGroups(body)
    IN IF body = << "0" >> THEN [ok |-> TRUE, v |-> 0]
       ELSE IF body = << >> \/ ~g.ok THEN [ok |-> FALSE, v |-> 0]
       ELSE [ok |-> TRUE, v |-> IF Negative(s) THEN 0 - g.v ELSE g.v]

\* getEnvInt(key, defaultValue), getEnvDuration(key, defaultValue)
getEnvInt(osenv, key, defaultValue) ==
    IF osenv[key] # << >> /\ Atoi(osenv[key]).ok THEN Atoi(osenv[key]).v ELSE defaultValue
getEnvDuration(osenv, key, defaultValue) ==
    IF osenv[key] # << >> /\ ParseDuration(osenv[key]).ok
    THEN ParseDuration(osenv[key]).v ELSE defaultValue

\* The defaults of Load.
DefaultRPCURL == << "https://api.calibration.node.glif.io/rpc/v1" >>
defaultWarmStorage(network) ==
    IF network = "calibration" THEN << "0x02925630df557F957f70E112bA06e50965417CA0" >>
    ELSE IF network = "mainnet" THEN << "0x8408502033C418E1bbC97cE9ac48E5528F371A9f" >>
    ELSE << >>
DefaultPort == 9091
DefaultIntervalMs == 60000
DefaultMaxConcurrent == 10

\* Config.Validate: the error, "" for nil.
Validate(c) ==
    IF c.RPCURL = "" THEN "RPC_URL is required"
    ELSE IF c.WarmStorageAddress = "" THEN "WARM_STORAGE_ADDRESS is required"
    ELSE IF c.ExporterPort <= 0 \/ c.ExporterPort > 65535
         THEN "EXPORTER_PORT must be between 1 and 65535"
    ELSE IF c.MaxConcurrentRequests <= 0 \/ c.MaxConcurrentRequests > 1000
         THEN "MAX_CONCURRENT_REQUESTS must be between 1 and 1000"
    ELSE ""

\* Load: the Config built from the environment, and what Load returns: the
\* Config (cfg, << >> for nil) and the error ("" for nil).  The token and
\* payments addresses, the metrics prefix and the log level are read with
\* getEnv and never validated; they are left out.
BuildConfig(osenv) ==
    LET network == Text(getEnv(osenv, "NETWORK", << "calibration" >>))
    IN [Network |-> network,
        RPCURL |-> Text(getEnv(osenv, "RPC_URL", DefaultRPCURL)),
        WarmStorageAddress |->
            Text(getEnv(osenv, "WARM_STORAGE_ADDRESS", defaultWarmStorage(network))),
        CustomWallets |-> parseCustomWallets(osenv),
        ExporterPort |-> getEnvInt(osenv, "EXPORTER_PORT", DefaultPort),
        ScrapeInterval |-> getEnvDuration(osenv, "SCRAPE_INTERVAL", DefaultIntervalMs),
        MaxConcurrentRequests |->
            getEnvInt(osenv, "MAX_CONCURRENT_REQUESTS", DefaultMaxConcurrent)]
Load(osenv) ==
    LET c == BuildConfig(osenv)
        err == Validate(c)
    IN IF err # "" THEN [cfg |-> << >>, err |-> "config validation failed: " \o err]
       ELSE [cfg |-> << c >>, err |-> ""]

\* What the exporter keeps of a loaded Config.
NoConfig == [N |-> 0, custom |-> 0, tags |-> << >>]
ExporterConfig(c) ==
    [N |-> c.MaxConcurrentRequests, custom |-> Len(c.CustomWallets),
     tags |-> [i \in 1..Len(c.CustomWallets) |-> c.CustomWallets[i].Type]]

\* main: cfg, err := config.Load(); log.Fatalf on an error.
LoadConfig ==
    /\ boot.pc = "load"
    /\ LET r == Load(boot.osenv)
       IN /\ boot' = [boot EXCEPT !.pc = IF r.err = "" THEN "running" ELSE "fatal",
                                  !.loaded = r]
          /\ cfg' = IF r.err = "" THEN ExporterConfig(r.cfg[1]) ELSE cfg
    /\ UNCHANGED << env, ticks, backing, histVars, schedVars, frameVars, poolVars, storeVars,
                    pubVars, readerVars >>

\* The environments main is started in.  All variables unset but the
\* custom-wallet ones: CUSTOM_WALLETS is any list of up to MaxEntries entries,
\* an entry being any string of up to MaxEntryLen tokens or one of the
\* samples; or the CUSTOM_WALLET_<i> keys are set as well.
EntryTokens == {":", " ", "w"}
SampleEntries ==
    {<< "0xA", ":", "alice", ":", "client" >>,
     << " ", "0xB", " ", ":", " ", "bob", " " >>,
     << "0xC", ":", "carol", " ", "c", ":", " " >>,
     << "0xD", ":", "dan", ":", "miner", ":", "x" >>,
     << "invalid" >>}
Entries == UNION {[1..k -> EntryTokens] : k \in 0..MaxEntryLen} \cup SampleEntries
RECURSIVE JoinEntries(_)
JoinEntries(es) ==
    IF Len(es) = 1 THEN es[1] ELSE es[1] \o << "," >> \o JoinEntries(Tail(es))
LegacyInputs == {JoinEntries(es) : es \in UNION {[1..k -> Entries] : k \in 1..MaxEntries}}
NumberedInputs == {<< >>, << "0xN", ":", "nina" >>, << "bad" >>, << ":" >>}
Unset ==
    [NETWORK |-> << >>, RPC_URL |-> << >>, WARM_STORAGE_ADDRESS |-> << >>,
     CUSTOM_WALLETS |-> << >>, CUSTOM_WALLET_N |-> [i \in 1..NumberedKeys |-> << >>],
     EXPORTER_PORT |-> << >>, SCRAPE_INTERVAL |-> << >>, MAX_CONCURRENT_REQUESTS |-> << >>]
WalletEnvs ==
    {[Unset EXCEPT !.CUSTOM_WALLETS = s] : s \in LegacyInputs}
    \cup {[Unset EXCEPT !.CUSTOM_WALLETS = s, !.CUSTOM_WALLET_N = n] :
             s \in {<< >>, << "0xA", ":", "alice", ":", "client", ",", "w" >>},
             n \in [1..NumberedKeys -> NumberedInputs]}

\* No custom wallets, the other variables unset or set to a value that is
\* good, unparsable or out of range.
PortInputs ==
    {<< >>, << "8", "0", "8", "0" >>, << "0" >>, << "-", "1" >>,
     << "6", "5", "5", "3", "5" >>, << "6", "5", "5", "3", "6" >>,
     << "h", "t", "t", "p" >>, << "8", "0", "8", "0", "x" >>}
ConcurrencyInputs ==
    {<< >>, << "5" >>, << "0" >>, << "1", "0", "0", "0" >>, << "1", "0", "0", "1" >>,
     << "m", "a", "n", "y" >>}
IntervalInputs ==
    {<< >>, << "3", "0", "s" >>, << "1", "m", "3", "0", "s" >>, << "5", "0", "0", "m", "s" >>,
     << "6", "0" >>, << "s", "o", "o", "n" >>, << "0", "s" >>, << "0" >>, << "-", "5", "s" >>}
ValueEnvs ==
    {[Unset EXCEPT !.NETWORK = net, !.RPC_URL = url, !.WARM_STORAGE_ADDRESS = warm,
                   !.EXPORTER_PORT = port, !.SCRAPE_INTERVAL = iv,
                   !.MAX_CONCURRENT_REQUESTS = mc] :
        net \in {<< >>, << "mainnet" >>, << "devnet" >>},
        url \in {<< >>, << "http://node/rpc" >>},
        warm \in {<< >>, << "0xW" >>},
        port \in PortInputs, iv \in IntervalInputs, mc \in ConcurrencyInputs}
NotLoaded == [cfg |-> << >>, err |-> ""]

\* ---------------------------------------------------------- specification
Scheduler == StartInitialScrape \/ TickFire \/ SelectTick \/ SelectDone \/ Cancel

PoolStep ==
    \/ \E p \in Pools, u \in UnitIds : Acquire(p, u)
    \/ \E p \in ChanPools, u \in UnitIds : FinishOk(p, u) \/ FinishErr(p, u)
    \/ \E p \in ChanPools : Closer(p) \/ CollectWallet(p) \/ CollectWalletsEnd(p)
                               \/ CollectError(p)
    \/ \E u \in UnitIds : PingFinish(u)
    \/ PingProvidersCall
    \/ PingProvidersReturn

ScrapeStep ==
    \/ FetchProvidersCall
    \/ FetchProvidersReturn
    \/ FetchCustomCall
    \/ FetchCustomReturn
    \/ WaitPings
    \/ LockWallets
    \/ WriteWallets
    \/ UnlockWallets
    \/ MetricsReset
    \/ MetricsFill
    \/ DeferBegin
    \/ WriteLastScrape
    \/ ScrapeReturn

StatusStep == StatusRLock \/ StatusGetWallets \/ StatusGetLastScrape \/ StatusRespond

NextCollect == Scheduler \/ PoolStep \/ ScrapeStep

Next == NextCollect \/ StatusStep

Spec == Init /\ [][Next]_vars


\* One cycle of the pools under a fair scheduler: every goroutine that can take
\* a step eventually does, and every remote call returns.
NextPools == StartInitialScrape \/ TickFire \/ PoolStep \/ ScrapeStep
PoolProgress == PoolStep \/ FetchProvidersReturn \/ FetchCustomReturn
FairSpec == InitOf({DrainScenario}) /\ [][NextPools]_vars /\ WF_vars(PoolProgress)

\* Several cycles with the interrupt signal arriving at any time.  Start and
\* the goroutines of a cycle keep taking steps and remote calls return; the
\* select, which picks at random among its ready cases, does not pass over a
\* ready ctx.Done() for ever.
CycleProgress == StartInitialScrape \/ PoolStep \/ ScrapeStep

\* One cycle over a small registry where every lookup of every unit may fail
\* on its own.
FieldSpec == InitOf({FieldsScenario}) /\ [][NextPools]_vars

\* Consecutive cycles, never cancelled, with failures of every kind: the
\* ticker keeps ticking and every goroutine that can take a step eventually
\* does.
NextCycles == NextPools \/ SelectTick
CycleSpec ==
    /\ InitOf({CyclesScenario})
    /\ [][NextCycles]_vars
    /\ WF_vars(NextCycles)

\* One cycle with the configured kinds, the approved set and the active flags
\* varied.
KindSpec == InitOf({KindsScenario}) /\ [][NextPools]_vars

\* One cycle with probes of every outcome; every goroutine that can take a
\* step eventually does, and every remote call and every GET returns (the GET
\* at the latest when the client's timeout expires).
ProbeSpec == InitOf({ProbesScenario}) /\ [][NextPools]_vars /\ WF_vars(CycleProgress)

\* Several cycles with the ticker firing at any time.
TickSpec == InitOf({TicksScenario}) /\ [][NextCycles]_vars

\* Two cycles in either of which the registry may be unreachable; every
\* goroutine that can take a step eventually does, and every remote call
\* returns.
OutageSpec == InitOf({OutageScenario}) /\ [][NextCycles]_vars /\ WF_vars(CycleProgress)

\* main up to the return of config.Load, started in any of the environments.
ConfigInit ==
    /\ Constructed({PoolsScenario})
    /\ cfg = NoConfig
    /\ boot \in {[pc |-> "load", osenv |-> o, loaded |-> NotLoaded] :
                    o \in WalletEnvs \cup ValueEnvs}
ConfigSpec == ConfigInit /\ [][LoadConfig]_vars

\* Two consecutive cycles over registries of changing size.
PublishSpec == InitOf({PublishScenario}) /\ [][NextCycles]_vars
StopSpec ==
    /\ InitOf({StopScenario})
    /\ [][NextCollect]_vars
    /\ WF_vars(CycleProgress)
    /\ SF_vars(SelectDone)

\* ================================================================= claims

\* C1: within any single pool the number of units holding a semaphore slot
\* (in flight) never exceeds MaxConcurrentRequests.
PoolCeiling == \A p \in Pools : Cardinality(Running(p)) <= cfg.N

\* C1 witness: a pool is saturated and a further unit is queued behind it.
PoolCeilingWitness ==
    \E p \in Pools : Cardinality(Running(p)) = cfg.N /\ Waiting(p) # {}

\* C2 (as claimed): the in-flight units of the three pools together never
\* exceed MaxConcurrentRequests.
GlobalCeiling ==
    Cardinality(Running("prov")) + Cardinality(Running("cust"))
        + Cardinality(Running("ping")) <= cfg.N

\* C3: a pool call that has started eventually returns, and a pool over an
\* empty identifier set returns an empty result.
PoolActive(p) == ppc[p] \in {"called", "collect", "errors", "wait"}
PoolDrained ==
    \A p \in Pools :
        ppc[p] = "returned" =>
            /\ \A u \in UnitIds : unit[p][u] \in {"none", "done"}
            /\ sem[p] = 0
            /\ p \in ChanPools =>
                  /\ walletChan[p] = << >>
                  /\ errorChan[p] = << >>
                  /\ Len(result[p]) + errs[p] = Cardinality(Dispatched(p))

\* C4 witness: the provider pool has returned with a record and an error
\* collected, and the probe pool has returned after probing.
PoolDrainedWitness ==
    /\ ppc["prov"] = "returned"
    /\ Len(result["prov"]) >= 1
    /\ errs["prov"] >= 1
    /\ ppc["ping"] = "returned"
    /\ Dispatched("ping") # {}

\* C5: what GetWallets returned is the initial empty list or exactly the list
\* one cycle assembled, all of whose records that cycle built.
InitialWallets == [gen |-> 0, recs |-> << >>, arr |-> 0]
GetWalletsComplete ==
    seenWallets # NoWallets =>
        \/ seenWallets = InitialWallets
        \/ /\ seenWallets.gen \in 1..env.cycles
           /\ assembled[seenWallets.gen].done
           /\ seenWallets.recs = assembled[seenWallets.gen].recs
           /\ \A i \in 1..Len(seenWallets.recs) :
                 seenWallets.recs[i].gen = seenWallets.gen

\* C5 witness: GetWallets returned the two-record list of cycle 1 while the
\* pools of cycle 2 are running.
GetWalletsCompleteWitness ==
    /\ rpc = "got_wallets"
    /\ seenWallets.gen = 1
    /\ Len(seenWallets.recs) = 2
    /\ cycle = 2
    /\ spc = "in_fetch_providers"

\* C6 (as claimed): the wallet list and the last-scrape time a /status request
\* obtained belong to the same cycle.
StatusPairConsistent == rpc = "got_both" => seenLast = seenWallets.gen

\* C7 (as claimed): whenever scrape is writing e.wallets or e.lastScrape the
\* write lock is held and no reader holds the read lock.
WritesHoldLock ==
    spc \in {"write_wallets", "write_last"} => (writer /\ readers = 0)

\* C8 (as claimed): what /metrics returns is at every moment the rendering of
\* one completely assembled snapshot (the initial empty one included).
MetricsReflectSnapshot ==
    \/ Gather = {}
    \/ \E c \in 1..env.cycles :
          assembled[c].done /\ Gather = Render(assembled[c].recs, assembled[c].pings)

\* C9: at most one scrape call started by Start is in progress.
AtMostOneCycle == inProgress <= 1

\* C9 witness: the second cycle is running and a tick is already pending
\* (the cycle has outlasted the interval).
AtMostOneCycleWitness ==
    inProgress = 1 /\ sched = "scraping" /\ tickPending /\ cycle = 2

\* C10: the first collection starts before any ticker exists, a collection
\* starts only from the start of Start or on a pending tick seen at the select,
\* and when a collection ends the scheduler is back at the select.
Collecting == sched \in {"initial_scrape", "scraping"}
Idle == sched = "select"
SchedulerStateMachine ==
    /\ [](sched \in {"start", "initial_scrape"} => (~tickerOn /\ ~tickPending))
    /\ [][sched = "start" /\ sched' # "start" => sched' = "initial_scrape" /\ cycle' = 1]_vars
    /\ [][cycle' # cycle => /\ sched = "start" \/ (Idle /\ tickPending)
                            /\ sched' \in {"initial_scrape", "scraping"}]_vars
    /\ [][inProgress' < inProgress => (Collecting /\ sched' = "select")]_vars

\* C10 witness: the second collection, started by a tick, has ended and the
\* scheduler is idle at the select again.
SchedulerStateMachineWitness ==
    sched = "select" /\ cycle = 2 /\ inProgress = 0 /\ lastScrape = 2

\* C11: once ctx is cancelled, whether Start is at the select or inside a
\* scrape, Start eventually returns (Stopped); once returned it stays returned
\* and no further cycle begins.
Stopped == sched = "stopped"
SchedulerStops ==
    /\ cancelled ~> Stopped
    /\ [][Stopped => (Stopped' /\ cycle' = cycle /\ inProgress' = 0)]_vars

\* C11 witness: Start has returned after a cancellation that arrived while the
\* units of a cycle were in flight.
SchedulerStopsWitness == Stopped /\ lateCalls # {} /\ scrapeErrors >= 1

\* C12 (as claimed): after ctx is cancelled no pool unit sends out a remote call.
NoCallAfterCancel == lateCalls = {}

\* C13: whatever failed in a cycle, scrape hands Start a nil result (Start
\* counts no scrape-level error) and Start is back at the select; Start never
\* stops, and a cycle with failures is followed by the next cycle (the runs
\* have two cycles).
FailuresNeverStop ==
    /\ [][(spc = "return" /\ spc' = "idle")
             => (sched' = "select" /\ scrapeErrors' = scrapeErrors)]_vars
    /\ [](sched # "stopped")
    /\ (cycle >= 1 /\ cycle < env.cycles) ~> (cycle = env.cycles)

\* C13 witness: the second cycle runs after a first one in which the approved
\* set lookup, a provider's token balance lookup, the custom wallet's native
\* balance lookup and a probe all failed.
FailuresNeverStopWitness ==
    /\ cycle = 2
    /\ inProgress = 1
    /\ remote[1].approved = "fail"
    /\ remote[1].answers["prov"][1] = UsdfcFail
    /\ remote[1].answers["cust"][1] = FilFail
    /\ \E r \in assembled[1].pings : ~r.Success

\* C18: the wallet and ping series exposed when a cycle has published are all
\* series updateMetrics sets for the list that cycle assembled (with the ping
\* results it gathered): nothing of an entity that has left the snapshot, or of its
\* old label values, is left.
NoStaleSeries ==
    \A c \in 1..env.cycles :
        published[c].done =>
            published[c].series \subseteq Render(assembled[c].recs, assembled[c].pings)

\* C18 witness: the second cycle has published a snapshot of one record after
\* a first cycle that published three.
NoStaleSeriesWitness ==
    /\ published[2].done
    /\ Len(assembled[1].recs) = 3
    /\ Len(assembled[2].recs) = 1

\* C19: when the remote source answered the same in two consecutive cycles,
\* the series of the balance, payment and info families exposed after the
\* second are those exposed after the first.
SameAnswers(c, d) ==
    /\ remote[c].count = remote[d].count
    /\ remote[c].approved = remote[d].approved
    /\ remote[c].approvedIDs = remote[d].approvedIDs
    /\ remote[c].answers = remote[d].answers
WalletFamilySeries(s) == {x \in s : x.fam \in WalletFamilies}
PublicationIdempotent ==
    \A c \in 1..(env.cycles - 1) :
        (published[c].done /\ published[c + 1].done /\ SameAnswers(c, c + 1))
            => WalletFamilySeries(published[c + 1].series)
                   = WalletFamilySeries(published[c].series)

\* C19 witness: two cycles with the same answers have published, and their
\* workers completed in a different order (the lists start with different
\* entities).
PublicationIdempotentWitness ==
    /\ published[1].done
    /\ published[2].done
    /\ SameAnswers(1, 2)
    /\ Len(assembled[1].recs) = 3
    /\ Len(assembled[2].recs) = 3
    /\ assembled[1].recs[1].Address # assembled[2].recs[1].Address

\* ---- the cycle that is about to return: it has stored its list and published.
PublishedLabels(w, fam) ==
    {s.labels : s \in {x \in series : x.fam = fam /\ x.labels[1] = AddrHex(w.Address)
                                                  /\ x.labels[2] = w.Type}}
StoredRecords == {wallets.recs[i] : i \in 1..Len(wallets.recs)}
ProviderShape == Len(WalletLabels(ProviderRecord(1, 1, AllOk, TRUE)))

AtCycleEnd == spc = "return"
UnitAddr(p, u) == IF p = "prov" THEN << "sp", u >> ELSE << "cw", u >>
Asked(p) == {u \in UnitIds : remote[cycle].answers[p][u] # NoAnswer}
AnswerOf(p, u) == remote[cycle].answers[p][u]
BaseFailed(p, o) == (p = "prov" /\ ~o.reg) \/ ~o.fil
SnapshotRecords(addr) ==
    {i \in 1..Len(wallets.recs) : wallets.recs[i].Address = addr}
SeriesOf(addr) == {s \in series : s.labels[1] = AddrHex(addr)}
DroppedUnits ==
    {pu \in ChanPools \X UnitIds :
        pu[2] \in Asked(pu[1]) /\ BaseFailed(pu[1], AnswerOf(pu[1], pu[2]))}
ErrorIncrease == scrapeErrors - remote[cycle].errs0

\* C14: at the end of a cycle an entity whose registry base info or native
\* balance lookup failed has no record in the stored list and no series in any
\* family; every entity whose foundational lookups succeeded has a record and
\* a series in each balance, payment and info family.
FailedEntityAbsent ==
    AtCycleEnd =>
        \A p \in ChanPools : \A u \in Asked(p) :
            IF BaseFailed(p, AnswerOf(p, u))
            THEN /\ SnapshotRecords(UnitAddr(p, u)) = {}
                 /\ SeriesOf(UnitAddr(p, u)) = {}
            ELSE /\ wallets.gen = cycle
                 /\ SnapshotRecords(UnitAddr(p, u)) # {}
                 /\ \A f \in WalletFamilies :
                       \E s \in SeriesOf(UnitAddr(p, u)) : s.fam = f

\* C14 witness: a cycle ends in which the provider's native balance lookup
\* failed and the custom wallet's lookups succeeded.
FailedEntityAbsentWitness ==
    /\ AtCycleEnd
    /\ AnswerOf("prov", 1) = FilFail
    /\ 1 \in Asked("cust")
    /\ ~BaseFailed("cust", AnswerOf("cust", 1))

\* C15: at the end of a cycle an entity whose foundational lookups succeeded
\* has a record with the native balance that was fetched, a zero token balance
\* if BalanceOf failed and four zero payment fields if the payment info lookup
\* failed.
SecondaryDegrades ==
    AtCycleEnd =>
        \A p \in ChanPools : \A u \in Asked(p) :
            ~BaseFailed(p, AnswerOf(p, u)) =>
                \E i \in SnapshotRecords(UnitAddr(p, u)) :
                    LET rec == wallets.recs[i]
                        o == AnswerOf(p, u)
                    IN /\ rec.FILBalance = FilOf(UnitAddr(p, u))
                       /\ ~o.usdfc => rec.USDFCBalance = 0
                       /\ o.pay = "err" =>
                             /\ rec.PaymentsFunds = 0
                             /\ rec.PaymentsAvailable = 0
                             /\ rec.PaymentsLocked = 0
                             /\ rec.PaymentsFundedUntil = 0

\* C15 witness: a cycle ends in which the provider's token balance and payment
\* info lookups failed and the custom wallet's token balance lookup failed.
SecondaryDegradesWitness ==
    /\ AtCycleEnd
    /\ AnswerOf("prov", 1) = [reg |-> TRUE, fil |-> TRUE, usdfc |-> FALSE, pay |-> "err",
                               active |-> TRUE]
    /\ AnswerOf("cust", 1) = UsdfcFail

\* A cycle in which exactly one provider's token balance lookup failed and
\* every other lookup succeeded.
OneTokenFailure ==
    /\ remote[cycle].count.st = "ok"
    /\ remote[cycle].approved = "ok"
    /\ Cardinality({u \in Asked("prov") : AnswerOf("prov", u) = UsdfcFail}) = 1
    /\ \A p \in ChanPools : \A u \in Asked(p) : AnswerOf(p, u) \in {AllOk, UsdfcFail}
    /\ \A u \in Asked("cust") : AnswerOf("cust", u) = AllOk
    /\ \A r \in pingResults : r.Success
TokenFailureProvider == CHOOSE u \in UnitIds : AnswerOf("prov", u) = UsdfcFail
TokenFailurePublished ==
    /\ SnapshotRecords(UnitAddr("prov", TokenFailureProvider)) # {}
    /\ \E s \in SeriesOf(UnitAddr("prov", TokenFailureProvider)) :
          s.fam = "usdfc_balance" /\ s.value = ToUnits(0)

ErrorsCountDropped == AtCycleEnd => ErrorIncrease = Cardinality(DroppedUnits)

\* C17 (amended): over a cycle the scrape error counter goes up by the number
\* of entities dropped because a foundational lookup failed, plus one if the
\* approved-providers lookup failed.
ErrorsCountDroppedAndApproved ==
    AtCycleEnd =>
        ErrorIncrease = Cardinality(DroppedUnits)
                          + (IF remote[cycle].approved = "fail" THEN 1 ELSE 0)

\* C17 witness: a cycle ends in which the approved-providers lookup failed, the
\* provider was dropped and the custom wallet was kept with a zero token balance.
ErrorsCountDroppedAndApprovedWitness ==
    /\ AtCycleEnd
    /\ remote[cycle].approved = "fail"
    /\ AnswerOf("prov", 1) = RegFail
    /\ AnswerOf("cust", 1) = UsdfcFail

\* C20: in every record of the stored list PaymentsLocked is PaymentsFunds
\* minus PaymentsAvailable, or zero where that is negative.
LockedIsClampedDifference ==
    \A i \in 1..Len(wallets.recs) :
        LET rec == wallets.recs[i]
            d == rec.PaymentsFunds - rec.PaymentsAvailable
        IN /\ rec.PaymentsLocked = (IF d > 0 THEN d ELSE 0)
           /\ rec.PaymentsLocked >= 0

\* C20 witness: the stored list holds a record whose account reported fewer
\* current funds than available funds and a record whose payment info lookup
\* failed.
LockedIsClampedDifferenceWitness ==
    /\ \E i \in 1..Len(wallets.recs) :
          wallets.recs[i].PaymentsFunds < wallets.recs[i].PaymentsAvailable
    /\ \E p \in ChanPools : \E u \in Asked(p) :
          /\ AnswerOf(p, u).pay = "err"
          /\ SnapshotRecords(UnitAddr(p, u)) # {}


\* C21: at the end of a cycle every stored record whose Type is not "provider"
\* has exactly one series in each balance, payment and info family, with as
\* many labels as a provider's and with the provider_id, is_active and
\* approved labels empty.
NonProviderLabelsEmpty ==
    AtCycleEnd =>
        \A w \in StoredRecords :
            w.Type # "provider" =>
                \A f \in WalletFamilies :
                    /\ Cardinality(PublishedLabels(w, f)) = 1
                    /\ \A l \in PublishedLabels(w, f) :
                          /\ Len(l) = ProviderShape
                          /\ l[3] = "" /\ l[4] = "" /\ l[5] = ""

\* C21 witness: a cycle ends that published a custom wallet of kind "client"
\* next to an inactive provider.
NonProviderLabelsEmptyWitness ==
    /\ AtCycleEnd
    /\ \E w \in StoredRecords : w.Type = "client"
    /\ \E w \in StoredRecords : w.Type = "provider" /\ ~w.IsActive

\* C22 (as claimed): in every stored list a record has ProviderID > 0 exactly
\* when its Type is "provider".
ProviderIDIffProvider ==
    \A w \in StoredRecords : (w.ProviderID > 0) <=> (w.Type = "provider")

\* C23 (as claimed): every record of every stored list has a Type among
\* provider, client, operator, other, and a record built from the custom
\* wallet configuration one among client, operator, other.
KindInEnumeration ==
    \A w \in StoredRecords :
        /\ w.Type \in {"provider", "client", "operator", "other"}
        /\ w.Address[1] = "cw" => w.Type \in {"client", "operator", "other"}

\* The IDs GetApprovedProviders returned in the current cycle.
ReturnedApproved ==
    IF remote[cycle].approved = "ok" THEN remote[cycle].approvedIDs ELSE {}

\* C24: at the end of a cycle every record of Type "provider" is published with approved = "true" exactly when its ID is among the IDs
\* GetApprovedProviders returned in that cycle and "false" otherwise, and its
\* native balance series has the fetched balance divided by 1e18 as its value.
ApprovedLabelAndBalance ==
    AtCycleEnd =>
        \A w \in StoredRecords :
            w.Type = "provider" =>
                /\ PublishedLabels(w, "fil_balance") =
                      {<< AddrHex(w.Address), "provider", FmtUint(w.ProviderID),
                          FmtBool(w.IsActive),
                          IF w.ProviderID \in ReturnedApproved THEN "true" ELSE "false" >>}
                /\ \A s \in series :
                      (s.fam = "fil_balance" /\ s.labels[1] = AddrHex(w.Address))
                          => s.value = << FilOf(w.Address), "1e18" >>

\* C24 witness: a cycle ends with providers 1 and 2 published and only
\* provider 2 approved.
ApprovedLabelAndBalanceWitness ==
    /\ AtCycleEnd
    /\ ReturnedApproved = {2}
    /\ \E w \in StoredRecords : w.ProviderID = 1
    /\ \E w \in StoredRecords : w.ProviderID = 2

\* C25: at the end of a cycle whose GetProviderCount answered n, the enricher
\* has run exactly once for each provider ID 1..n and for no other, and every
\* provider whose foundational lookups succeeded has exactly one record in the
\* stored list, approved or not, active or not.
AllProvidersMonitored ==
    (AtCycleEnd /\ remote[cycle].count.st = "ok") =>
        \A u \in UnitIds :
            /\ remote[cycle].calls["prov"][u] = (IF u <= remote[cycle].count.n THEN 1 ELSE 0)
            /\ (u <= remote[cycle].count.n /\ ~BaseFailed("prov", AnswerOf("prov", u)))
                  => Cardinality(SnapshotRecords(UnitAddr("prov", u))) = 1

\* C25 witness: a cycle ends with two providers stored, neither approved and
\* one of them inactive.
AllProvidersMonitoredWitness ==
    /\ AtCycleEnd
    /\ remote[cycle].count = [st |-> "ok", n |-> 2]
    /\ ReturnedApproved = {}
    /\ \E w \in StoredRecords : w.ProviderID = 1 /\ ~w.IsActive
    /\ \E w \in StoredRecords : w.ProviderID = 2 /\ w.IsActive

\* The records the two enrichment pools build from the answers of the current
\* cycle, whatever the probes do.
EnrichedRecords ==
    {ProviderRecord(u, cycle, AnswerOf("prov", u), u \in ReturnedApproved) :
        u \in {x \in Asked("prov") : ~BaseFailed("prov", AnswerOf("prov", x))}}
    \cup
    {CustomRecord(u, cycle, AnswerOf("cust", u)) :
        u \in {x \in Asked("cust") : ~BaseFailed("cust", AnswerOf("cust", x))}}
ProbeOf(id) == remote[cycle].probes[id]
Probed == {id \in UnitIds : ProbeOf(id) # "unasked"}
PingSeriesOf(s, id) ==
    {x \in s : x.fam \in {"ping_success", "ping_duration"} /\ x.labels[2] = FmtUint(id)}
PingResultsOf(id) == {r \in pingResults : r.ProviderID = id}

\* C26: whatever the outcomes of the probes, a cycle that has begun reaches its
\* end, and the list it stored holds exactly the records the enrichment pools
\* built from their own answers, each once.
ProbesNeverFailCollection ==
    /\ (spc = "fetch_providers") ~> AtCycleEnd
    /\ [](AtCycleEnd => /\ wallets.gen = cycle
                        /\ StoredRecords = EnrichedRecords
                        /\ Len(wallets.recs) = Cardinality(EnrichedRecords))

\* C26 witness: a cycle ends with two providers stored, the probe of one timed
\* out and the other's product inactive.
ProbesNeverFailCollectionWitness ==
    /\ AtCycleEnd
    /\ ProbeOf(1) = "timeout"
    /\ ProbeOf(2) = "inactive"
    /\ Len(wallets.recs) = 3

\* C27 (as claimed): at the end of a cycle a provider whose product has no
\* serviceURL or is inactive, or whose probe met a network error, has no ping
\* result and no ping series.
NetworkErrorNoResult ==
    AtCycleEnd =>
        \A id \in Probed :
            ProbeOf(id) \in {"no_url", "inactive", "lookup_err", "http_err", "timeout"}
                => (PingResultsOf(id) = {} /\ PingSeriesOf(series, id) = {})

\* C27 (amended): at the end of a cycle a provider whose product lookup failed,
\* whose product is inactive or has no serviceURL has no ping result and no
\* ping series; one whose GET failed or timed out has a ping result, with
\* Success false.
UndiscoveredNoResult ==
    AtCycleEnd =>
        \A id \in Probed :
            /\ ProbeOf(id) \in {"no_url", "inactive", "lookup_err"}
                  => (PingResultsOf(id) = {} /\ PingSeriesOf(series, id) = {})
            /\ ProbeOf(id) \in {"http_err", "timeout"}
                  => (PingResultsOf(id) # {} /\ \A r \in PingResultsOf(id) : ~r.Success)

\* C27 witness: a cycle ends in which one provider's product had no serviceURL
\* and the GET to the other's endpoint failed.
UndiscoveredNoResultWitness ==
    /\ AtCycleEnd
    /\ ProbeOf(1) = "no_url"
    /\ ProbeOf(2) = "http_err"

\* C28: at the end of a cycle a provider whose GET failed, timed out or
\* answered with a status other than 200 has one ping result with Success
\* false and the measured duration, published as ping_success 0 and
\* ping_duration; its record is in the stored list, and the scrape error
\* counter has gone up only by the dropped entities.
FailedProbeRecorded ==
    AtCycleEnd =>
        /\ \A id \in Probed :
              ProbeOf(id) \in {"http_err", "timeout", "non200"} =>
                  /\ PingResultsOf(id) =
                        {[ProviderID |-> id, Success |-> FALSE,
                          Duration |-> LatencyMs(ProbeOf(id))]}
                  /\ {[fam |-> x.fam, value |-> x.value] : x \in PingSeriesOf(series, id)} =
                        {[fam |-> "ping_success", value |-> ToFloat(0)],
                         [fam |-> "ping_duration", value |-> ToFloat(LatencyMs(ProbeOf(id)))]}
                  /\ Cardinality(SnapshotRecords(UnitAddr("prov", id))) = 1
        /\ ErrorIncrease = Cardinality(DroppedUnits)

\* C28 witness: a cycle ends in which one provider's endpoint answered with a
\* status other than 200 and the GET to the other's timed out.
FailedProbeRecordedWitness ==
    /\ AtCycleEnd
    /\ ProbeOf(1) = "non200"
    /\ ProbeOf(2) = "timeout"

\* The ping series of a cycle c, from the outcomes of its probes.
ProbeSeries(c) ==
    UNION {
      {[fam |-> "ping_success", labels |-> PingLabels(assembled[c].recs[i]),
        value |-> ToFloat(IF ProbeSuccess(remote[c].probes[assembled[c].recs[i].ProviderID])
                          THEN 1 ELSE 0)],
       [fam |-> "ping_duration", labels |-> PingLabels(assembled[c].recs[i]),
        value |-> ToFloat(LatencyMs(remote[c].probes[assembled[c].recs[i].ProviderID]))]}
      : i \in {k \in 1..Len(assembled[c].recs) :
                 /\ assembled[c].recs[k].Type = "provider"
                 /\ assembled[c].recs[k].ProviderID \in UnitIds
                 /\ Discovered(remote[c].probes[assembled[c].recs[k].ProviderID])} }
AfterJoin ==
    spc \in {"lock", "write_wallets", "unlock", "reset_metrics", "fill_metrics", "defer",
             "write_last", "return"}

\* C29: from the moment scrape goes on to replace the stored list until it
\* returns, every probe unit of the cycle has ended and pingProviders has
\* returned; and the ping series a cycle has published are those of the
\* outcomes of that cycle's probes.
ProbesJoinedBeforeAssembly ==
    /\ AfterJoin =>
          /\ \A u \in UnitIds : unit["ping"][u] \in {"none", "done"}
          /\ pingStarted => (ppc["ping"] = "returned" /\ pingResults = pingMap)
    /\ \A c \in 1..env.cycles :
          published[c].done =>
              {x \in published[c].series : x.fam \in {"ping_success", "ping_duration"}}
                  = ProbeSeries(c)

\* C29 witness: the second cycle has published after a probe that succeeded,
\* the first after one that answered with a status other than 200.
ProbesJoinedBeforeAssemblyWitness ==
    /\ published[2].done
    /\ remote[1].probes[1] = "non200"
    /\ remote[2].probes[1] = "up"

\* C30 (as claimed): the probe pool runs concurrently with the provider pool,
\* not after it: pingProviders is called while fetchProviderWallets has not
\* yet returned.
ProbesStartDuringProviderPool ==
    [][(ppc["ping"] = "idle" /\ ppc'["ping"] # "idle") => ppc'["prov"] # "returned"]_vars

\* What holds instead: while a probe unit is queued or in flight no provider
\* enrichment unit is, the provider pool having returned.
ProbesAfterProviderPool ==
    (Waiting("ping") \cup Running("ping")) # {} =>
        (ppc["prov"] = "returned" /\ Waiting("prov") \cup Running("prov") = {})

\* C31 (as claimed): a provider record with IsActive false, or with provider
\* ID 0, is never probed and never gets a ping result.
OnlyActiveProbed ==
    \A i \in 1..Len(result["prov"]) :
        LET w == result["prov"][i]
        IN (~w.IsActive \/ w.ProviderID = 0) =>
              /\ unit["ping"][i] = "none"
              /\ w.ProviderID \in UnitIds => ProbeOf(w.ProviderID) = "unasked"
              /\ \A r \in pingMap \cup pingResults : r.ProviderID # w.ProviderID

\* What the reader of a slice sees now in its backing array.
View(ref) == SubSeq(backing[ref.arr], 1, Len(ref.recs))

\* C32: the elements of a list GetWallets returned stay what they were when it
\* was returned, and the backing array of a list that was stored in e.wallets
\* is never written again.
SnapshotImmutable ==
    /\ [](seenWallets # NoWallets => View(seenWallets) = seenWallets.recs)
    /\ [](View(wallets) = wallets.recs)
    /\ [][\A a \in 0..env.cycles :
             (a = wallets.arr \/ (seenWallets # NoWallets /\ a = seenWallets.arr))
                 => backing'[a] = backing[a]]_vars

\* C32 witness: a /status request holds the two-record list of cycle 1 while
\* cycle 2 has already stored its own list.
SnapshotImmutableWitness ==
    /\ rpc = "got_wallets"
    /\ seenWallets.gen = 1
    /\ Len(seenWallets.recs) = 2
    /\ wallets.gen = 2
    /\ wallets.recs # seenWallets.recs

\* The records unit u of pool p has sent that are still in walletChan or
\* already in the list the call returns, and its errors still in errorChan.
RecordsOf(p, u) ==
    LET sent == walletChan[p] \o result[p]
    IN {i \in 1..Len(sent) : sent[i].Address = UnitAddr(p, u)}
PendingErrorsOf(p, u) == {i \in 1..Len(errorChan[p]) : errorChan[p][i] = u}
FailedUnits(p) == {u \in Dispatched(p) : unit[p][u] = "done" /\ BaseFailed(p, AnswerOf(p, u))}

\* C36: in a call of fetchProviderWallets or fetchCustomWallets a unit that
\* has not finished has sent nothing; a finished unit has sent exactly one
\* record if its foundational lookups succeeded and exactly one error if not,
\* never both; every error received adds one to the error counter; and when
\* the call has returned the list holds exactly one record per succeeded unit,
\* the errors counted are the failed units, and records plus errors are the
\* identifiers dispatched.
OneOutcomePerUnit ==
    /\ [] \A p \in ChanPools :
          ppc[p] \in {"collect", "errors", "returned"} =>
            /\ \A u \in UnitIds :
                  /\ unit[p][u] # "done" => (RecordsOf(p, u) = {} /\ PendingErrorsOf(p, u) = {})
                  /\ unit[p][u] = "done" =>
                        /\ Cardinality(RecordsOf(p, u)) =
                              (IF BaseFailed(p, AnswerOf(p, u)) THEN 0 ELSE 1)
                        /\ Cardinality(PendingErrorsOf(p, u)) <= 1
                        /\ PendingErrorsOf(p, u) # {} => BaseFailed(p, AnswerOf(p, u))
            /\ Len(errorChan[p]) + errs[p] = Cardinality(FailedUnits(p))
            /\ ppc[p] = "returned" =>
                  /\ \A u \in Dispatched(p) :
                        Cardinality({i \in 1..Len(result[p]) :
                                       result[p][i].Address = UnitAddr(p, u)})
                            = (IF BaseFailed(p, AnswerOf(p, u)) THEN 0 ELSE 1)
                  /\ errs[p] = Cardinality(FailedUnits(p))
                  /\ Len(result[p]) + errs[p] = Cardinality(Dispatched(p))
    /\ [][\A p \in ChanPools :
            errs'[p] > errs[p] =>
                (errs'[p] = errs[p] + 1 /\ scrapeErrors' = scrapeErrors + 1)]_vars

\* C36 witness: the provider pool has returned over two identifiers with one
\* record and one error, and the custom pool has returned with one error.
OneOutcomePerUnitWitness ==
    /\ ppc["prov"] = "returned"
    /\ Dispatched("prov") = {1, 2}
    /\ Len(result["prov"]) = 1
    /\ errs["prov"] = 1
    /\ ppc["cust"] = "returned"
    /\ Dispatched("cust") = {1}
    /\ errs["cust"] = 1

\* ---- config.Load has returned.
LoadReturned == boot.pc \in {"running", "fatal"}
LoadFailed ==
    boot.pc = "fatal" /\ boot.loaded.cfg = << >> /\ boot.loaded.err # ""
InvalidInt(s, lo, hi) ==
    s # << >> /\ (~Atoi(s).ok \/ Atoi(s).v < lo \/ Atoi(s).v > hi)
InvalidInterval(s) ==
    s # << >> /\ (~ParseDuration(s).ok \/ ParseDuration(s).v <= 0)
EffectiveWarmStorage(o) ==
    getEnv(o, "WARM_STORAGE_ADDRESS",
           defaultWarmStorage(Text(getEnv(o, "NETWORK", << "calibration" >>))))

\* C33 (as claimed): Load returns an error and no Config whenever the RPC URL
\* or the warm-storage address it arrives at is empty, or EXPORTER_PORT,
\* MAX_CONCURRENT_REQUESTS or SCRAPE_INTERVAL is set to a value that does not
\* parse or is out of range (ports 1..65535, 1..1000 concurrent requests, a
\* positive interval).
InvalidValuesRejected ==
    (/\ LoadReturned
     /\ \/ getEnv(boot.osenv, "RPC_URL", DefaultRPCURL) = << >>
        \/ EffectiveWarmStorage(boot.osenv) = << >>
        \/ InvalidInt(boot.osenv.EXPORTER_PORT, 1, 65535)
        \/ InvalidInt(boot.osenv.MAX_CONCURRENT_REQUESTS, 1, 1000)
        \/ InvalidInterval(boot.osenv.SCRAPE_INTERVAL))
        => LoadFailed

\* What holds instead: Load fails exactly when the warm-storage address it
\* arrives at is empty or the port or the concurrency limit parses to a number
\* out of range; a value that does not parse is replaced by the default.
ParsedOutOfRangeRejected ==
    LoadReturned =>
        (LoadFailed <=>
            \/ EffectiveWarmStorage(boot.osenv) = << >>
            \/ LET p == boot.osenv.EXPORTER_PORT
               IN p # << >> /\ Atoi(p).ok /\ (Atoi(p).v < 1 \/ Atoi(p).v > 65535)
            \/ LET m == boot.osenv.MAX_CONCURRENT_REQUESTS
               IN m # << >> /\ Atoi(m).ok /\ (Atoi(m).v < 1 \/ Atoi(m).v > 1000))

\* The entries of the custom-wallet configuration in the order they are read:
\* the stretches of CUSTOM_WALLETS between its commas (none when it is empty),
\* then the values of the CUSTOM_WALLET_<i> keys.
Commas(s) == {i \in 1..Len(s) : s[i] = ","}
CutBefore(s, k) ==
    IF k = 1 THEN 0
    ELSE CHOOSE i \in Commas(s) : Cardinality({j \in Commas(s) : j <= i}) = k - 1
CutAfter(s, k) ==
    IF k = Cardinality(Commas(s)) + 1 THEN Len(s) + 1
    ELSE CHOOSE i \in Commas(s) : Cardinality({j \in Commas(s) : j <= i}) = k
LegacyEntries(s) ==
    IF s = << >> THEN << >>
    ELSE [k \in 1..(Cardinality(Commas(s)) + 1) |->
            SubSeq(s, CutBefore(s, k) + 1, CutAfter(s, k) - 1)]
ConfiguredEntries(o) == LegacyEntries(o.CUSTOM_WALLETS) \o o.CUSTOM_WALLET_N

\* The parts of an entry: the stretches between its colons, without the
\* spaces around them; part k of an entry that has fewer is empty.
Colons(x) == {i \in 1..Len(x) : x[i] = ":"}
NthColon(x, k) ==
    IF k = 0 THEN 0
    ELSE IF k > Cardinality(Colons(x)) THEN Len(x) + 1
    ELSE CHOOSE i \in Colons(x) : Cardinality({j \in Colons(x) : j <= i}) = k
Stripped(x) ==
    LET inked == {i \in 1..Len(x) : x[i] # " "}
    IN IF inked = {} THEN ""
       ELSE Text(SubSeq(x, CHOOSE i \in inked : \A j \in inked : i <= j,
                           CHOOSE i \in inked : \A j \in inked : j <= i))
PartOf(x, k) ==
    IF k > Cardinality(Colons(x)) + 1 THEN ""
    ELSE Stripped(SubSeq(x, NthColon(x, k - 1) + 1, NthColon(x, k) - 1))
WellFormed(x) == Cardinality(Colons(x)) >= 1
ExpectedWallet(x) ==
    [Address |-> PartOf(x, 1), Name |-> PartOf(x, 2),
     Type |-> IF PartOf(x, 3) = "" THEN "other" ELSE PartOf(x, 3)]

\* C34: the custom wallets of a loaded Config are, in the order of the
\* configured entries, one wallet for each entry with at least two
\* colon-separated parts, made of its first part as address, its second as
\* name and its third as kind, "other" when there is none; an entry with fewer
\* parts yields nothing, and so does an empty CUSTOM_WALLETS.
OneWalletPerWellFormedEntry ==
    boot.pc = "running" =>
        LET es == ConfiguredEntries(boot.osenv)
            good == {k \in 1..Len(es) : WellFormed(es[k])}
            ws == boot.loaded.cfg[1].CustomWallets
        IN /\ Len(ws) = Cardinality(good)
           /\ \A k \in good :
                 ws[Cardinality({g \in good : g <= k})] = ExpectedWallet(es[k])
           /\ boot.osenv.CUSTOM_WALLETS = << >> =>
                 Len(ws) = Cardinality({i \in 1..NumberedKeys :
                                          WellFormed(boot.osenv.CUSTOM_WALLET_N[i])})
           /\ cfg.custom = Len(ws)

\* C34 witness: Load has returned one wallet of kind "other" for a
\* CUSTOM_WALLETS of two entries, the first of one part only, the second with
\* spaces around its two parts.
OneWalletPerWellFormedEntryWitness ==
    /\ boot.pc = "running"
    /\ boot.osenv.CUSTOM_WALLETS =
          << "invalid", ",", " ", "0xB", " ", ":", " ", "bob", " " >>
    /\ boot.loaded.cfg[1].CustomWallets =
          << [Address |-> "0xB", Name |-> "bob", Type |-> "other"] >>

\* The series of providers and of probes among s.
ProviderSeries(s) ==
    {x \in s : \/ x.fam \in {"ping_success", "ping_duration"}
               \/ \E u \in UnitIds : x.labels[1] = AddrHex(UnitAddr("prov", u))}
CountFailed(c) == remote[c].count.st = "fail"

\* C38: a cycle in which GetProviderCount failed goes on to its end; at its
\* end no provider enricher and no probe has run in it, the stored list is
\* that of this cycle and holds exactly the records of the custom wallets
\* enriched in it, and the published series are those of these records: no
\* provider series and no ping series is left.
CountFailureTolerated ==
    /\ \A c \in 1..OutageScenario.cycles :
          (cycle = c /\ spc = "fetch_custom" /\ CountFailed(c))
              ~> (cycle = c /\ AtCycleEnd)
    /\ []((AtCycleEnd /\ CountFailed(cycle)) =>
            /\ \A u \in UnitIds :
                  /\ remote[cycle].calls["prov"][u] = 0
                  /\ ProbeOf(u) = "unasked"
            /\ Dispatched("prov") = {} /\ Dispatched("ping") = {}
            /\ remote[cycle].approved = "none"
            /\ wallets.gen = cycle
            /\ wallets.recs = result["cust"]
            /\ StoredRecords =
                  {CustomRecord(u, cycle, AnswerOf("cust", u)) :
                      u \in {x \in 1..cfg.custom : ~BaseFailed("cust", AnswerOf("cust", x))}}
            /\ Len(wallets.recs) = Cardinality(StoredRecords)
            /\ series = Render(wallets.recs, {})
            /\ ProviderSeries(series) = {})

\* C38 witness: the second cycle ends after a failed GetProviderCount with
\* the custom wallet's record stored, the first having published the series
\* of a provider and of its probe.
CountFailureToleratedWitness ==
    /\ AtCycleEnd
    /\ cycle = 2
    /\ CountFailed(2)
    /\ Len(wallets.recs) = 1
    /\ \E x \in published[1].series : x.fam = "ping_success"
    /\ \E x \in published[1].series : x.labels[1] = AddrHex(UnitAddr("prov", 1))

\* C39: when GetApprovedProviders fails in a cycle whose GetProviderCount
\* answered n, the failure adds exactly one to the scrape error counter in the
\* step that sees it; at the end of the cycle the enricher has run exactly once
\* for each provider ID 1..n, every enriched provider has its record stored,
\* every provider record stored is not approved and published with approved =
\* "false", and the counter has gone up by one more than the entities dropped.
ApprovedFailureTolerated ==
    /\ [][(spc = "fetch_providers" /\ remote'[cycle].approved = "fail")
            => scrapeErrors' = scrapeErrors + 1]_vars
    /\ []((AtCycleEnd /\ remote[cycle].approved = "fail") =>
            /\ \A u \in UnitIds :
                  /\ remote[cycle].calls["prov"][u] =
                        (IF u <= remote[cycle].count.n THEN 1 ELSE 0)
                  /\ (u <= remote[cycle].count.n /\ ~BaseFailed("prov", AnswerOf("prov", u)))
                        => Cardinality(SnapshotRecords(UnitAddr("prov", u))) = 1
            /\ \A w \in StoredRecords :
                  (w.Type = "provider" \/ w.Address[1] = "sp") =>
                      /\ ~w.IsApproved
                      /\ \A s \in SeriesOf(w.Address) :
                            Len(s.labels) = ProviderShape => s.labels[5] = "false"
            /\ ErrorIncrease = Cardinality(DroppedUnits) + 1)

\* C39 witness: a cycle ends in which the approved-set lookup failed, two
\* providers were enriched and stored, and no entity was dropped.
ApprovedFailureToleratedWitness ==
    /\ AtCycleEnd
    /\ remote[cycle].approved = "fail"
    /\ remote[cycle].count = [st |-> "ok", n |-> 2]
    /\ \E w \in StoredRecords : w.ProviderID = 1 /\ ~w.IsApproved
    /\ \E w \in StoredRecords : w.ProviderID = 2 /\ ~w.IsApproved
    /\ DroppedUnits = {}
    /\ ErrorIncrease = 1

\* C35 (as claimed): once ctx is cancelled no scrape call begins, neither the
\* initial one nor one for a pending tick.
NoCycleAfterCancel == [][cancelled => cycle' = cycle]_vars

\* C37: the ticks delivered and not yet received never exceed one, the cycles
\* begun never exceed one plus the ticks delivered, and a cycle begun at the
\* select takes the pending tick and leaves none.
TicksCoalesced ==
    /\ [](cycle >= 1 => ticks <= cycle)
    /\ [](cycle <= 1 + ticks)
    /\ [][(sched = "select" /\ cycle' # cycle) => (tickPending /\ ~tickPending')]_vars

\* C37 witness: the third cycle has begun on the tick that was delivered while
\* the second was running or just after it, and no tick is left.
TicksCoalescedWitness ==
    /\ cycle = 3
    /\ spc = "fetch_providers"
    /\ ticks = 2
    /\ ~tickPending

====
